---------------------------- MODULE Spec2Model ----------------------------
(***************************************************************************)
(* Model of the usage-analytics engine of the fleet application            *)
(* (src/analytics.py): the mileage-rate estimator analizar_km_por_tiempo,  *)
(* the maintenance forecaster predecir_proximos_mantenimientos and the     *)
(* cost model's persisted artifact (crear_modelo_prediccion_costos /       *)
(* predecir_costo_service), and of the vehicle and service-record          *)
(* operations of the database (src/database.py, src/secure_database.py),   *)
(* with the result cache of its reads (src/cache_manager.py).              *)
(*                                                                         *)
(* Conventions.                                                            *)
(*  - A timestamp is an integer number of ticks; a calendar day has        *)
(*    TicksPerDay ticks.  Service dates are dates (midnight, tick 0 of     *)
(*    their day); pd.to_datetime('today') is the current instant, with its *)
(*    time of day.  Timedelta.days is the floor division by TicksPerDay.   *)
(*  - A rate (km per day) is an exact fraction [n, d] with d > 0; pandas   *)
(*    computes it in binary floating point, whose rounding is not          *)
(*    modelled.                                                            *)
(*  - "PROXIMO" stands for the source's label 'PRÓXIMO'.                   *)
(***************************************************************************)
EXTENDS Integers, Sequences, FiniteSets, TLC

(***************************************************************************)
(* Bounds of the model.                                                    *)
(***************************************************************************)
TicksPerDay == 2
HoyDia == 40
MaxServices == 2
MaxValidos == 11
MaxCorridas == 2
MaxHistorial == 2
MaxDependientes == 1
MaxReloj == 2

Patentes == {"A", "B"}
Fechas == {HoyDia - 25, HoyDia - 10}
KmsService == {100, 200}
KmsVehiculo == {100, 200, 300}
UmbralesKm == {50, 150, 5000}
UmbralesDias == {10, 40, 180}

VARIABLES
  df_vehiculos,   \* vehicle table: patente -> current odometer (km)
  df_services,    \* service-history table, in table order: [patente, fecha, km]
  pc,             \* "inicio", "analizado" (analizar returned), "predicho"
  llamada,        \* the arguments and the clock reading of the call made
  stats,          \* rows of analizar_km_por_tiempo, by patente
  predicciones,   \* rows returned by predecir_proximos_mantenimientos, in order
  error,          \* TRUE when the call ended in its except branch
  archivos,       \* the persisted artifact: the content of the two .pkl files
  entrenamiento,  \* the call of crear_modelo_prediccion_costos in progress
  lector,         \* the call of predecir_costo_service in progress
  propagada,      \* the exception a call let through to its caller, if any
  bd,             \* the database: its engine and its four tables
  cache_manager,  \* the CacheManager singleton and the files of CACHE_DIR
  ahora,          \* datetime.now(), in ticks
  retorno,        \* what the last call of the cache or of a cached read returned
  avisos,         \* what the last process_maintenance_reminders fetched
  hilos           \* the calls of secure_database in progress, one per thread

varsAnalitica ==
  <<df_vehiculos, df_services, pc, llamada, stats, predicciones, error>>
varsCostos == <<archivos, entrenamiento, lector>>
varsCache == <<cache_manager, ahora, retorno>>
varsResto == <<varsCache, avisos, hilos>>
vars == <<varsAnalitica, varsCostos, propagada, bd, varsResto>>

----------------------------------------------------------------------------
(* Helpers: fractions, floor/ceiling, stable sort.                          *)

Frac(n, d) == [n |-> n, d |-> d]

FracMenor(a, b) == a.n * b.d < b.n * a.d
FracMenorIgual(a, b) == a.n * b.d <= b.n * a.d
FracSuma(a, b) == Frac(a.n * b.d + b.n * a.d, a.d * b.d)

\* numpy.ceil(x / y) for y # 0, as an integer
CeilDiv(x, y) == IF y > 0 THEN -((-x) \div y) ELSE -(x \div (-y))

Min2(a, b) == IF a <= b THEN a ELSE b

\* A stable sort of sequence s (pandas' lexsort of a multi-column sort_values
\* keeps the input order of equal keys); menor[j, i] tells whether the key
\* of s[j] is strictly below the key of s[i].
OrdenEstable(s, menor) ==
  LET n == Len(s)
      Antes(j, i) == menor[j, i] \/ (~menor[i, j] /\ j < i)
      pos(i) == Cardinality({j \in 1..n : j # i /\ Antes(j, i)}) + 1
  IN  [k \in 1..n |-> s[CHOOSE i \in 1..n : pos(i) = k]]

----------------------------------------------------------------------------
(* Exceptions.  The body of each of the four functions is one try block     *)
(* with the handler 'except Exception as e', which logs and returns the     *)
(* function's failure value.                                                *)

SinExcepcion == "ninguna"

\* The classes raised in the model: ValueError by pd.to_datetime on a
\* string it cannot parse, IntCastingNaNError (a ValueError) by astype(int)
\* on inf or NaN, EOFError by pickle.load on a truncated file.  All derive
\* from Exception.
SubclasesDeException == {"ValueError", "IntCastingNaNError", "EOFError"}

\* Mutant of Captura: the handler is 'except ValueError'.
CapturaSoloValueError(e) == e \in {"ValueError", "IntCastingNaNError"}

\* Lines 103, 188, 282, 333: except Exception as e
Captura(e) == e \in SubclasesDeException

\* What the caller sees after the try statement when its body raised e
\* (SinExcepcion when it raised nothing); previa is what it had seen before.
Propagar(previa, e) ==
  IF e # SinExcepcion /\ ~Captura(e) THEN e ELSE previa

----------------------------------------------------------------------------
(* The database (src/database.py, src/secure_database.py): the tables       *)
(* vehiculos (patente -> km, fecha_service), historial_service, incidentes  *)
(* and programacion_mantenimiento (rows in insertion order, each with the   *)
(* patente it references), on PostgreSQL when DATABASE_URL is set and on    *)
(* SQLite otherwise.  Every operation opens a connection, runs its          *)
(* statements and commits, or closes without committing when a statement    *)
(* raised.                                                                  *)

PatentesBD == {"A"}
FechasBD == {1, 2}
KmsBD == {100, 200}
FechasProgramadas == {4, 11}
KmsProgramados == {600, 5000}

\* The calendar date at clock reading now: one day per tick, after the
\* dates of FechasBD.
FechaActual(now) == now + 3

\* fecha_service of a vehicle registered without one (None).
SinFecha == 0

BDVacia(postgres) ==
  [USE_POSTGRES |-> postgres,
   vehiculos |-> << >>,
   historial_service |-> << >>,
   incidentes |-> << >>,
   programacion_mantenimiento |-> << >>]

\* The database while the analytics or the cost model is exercised.
BDEnReposo == bd = BDVacia(FALSE)

\* database.py:180-186, secure_database.py:195-209: the FOREIGN KEY clauses
\* of the three dependent tables are enforced by PostgreSQL; SQLite enforces
\* them only on a connection that ran PRAGMA foreign_keys = ON, and
\* get_connection() returns sqlite3.connect(db_path) without it.
ClaveForaneaVigente(b) == b.USE_POSTGRES

\* The rows of table t that reference patente.
Referencias(t, patente) == {i \in 1..Len(t) : t[i].patente = patente}

\* secure_database.py:506-534: related_records is not empty.
TieneDependientes(b, patente) ==
  \/ Referencias(b.historial_service, patente) # {}
  \/ Referencias(b.incidentes, patente) # {}
  \/ Referencias(b.programacion_mantenimiento, patente) # {}

\* DELETE FROM vehiculos WHERE patente = ?
SinVehiculo(t, patente) == [p \in DOMAIN t \ {patente} |-> t[p]]

\* database.py:220-252: INSERT INTO vehiculos; the primary key rejects a
\* patente already present.
add_vehicle(b, patente, km) ==
  IF patente \in DOMAIN b.vehiculos THEN b
  ELSE [b EXCEPT !.vehiculos =
          [p \in DOMAIN b.vehiculos \cup {patente} |->
             IF p = patente THEN [km |-> km, fecha_service |-> SinFecha]
             ELSE b.vehiculos[p]]]

\* database.py:293-313: DELETE FROM vehiculos, committed unless the
\* statement raised (a foreign-key violation, where they are enforced).
delete_vehicle(b, patente) ==
  IF ClaveForaneaVigente(b) /\ TieneDependientes(b, patente) THEN b
  ELSE [b EXCEPT !.vehiculos = SinVehiculo(b.vehiculos, patente)]

\* secure_database.py:491-575: the three counts, the refusal when one is
\* positive, otherwise the DELETE.
secure_delete_vehicle(b, patente) ==
  IF TieneDependientes(b, patente) THEN b
  ELSE [b EXCEPT !.vehiculos = SinVehiculo(b.vehiculos, patente)]

\* UPDATE vehiculos SET fecha_service = ?, km = ? WHERE patente = ?
ActualizarVehiculo(t, patente, fecha, km) ==
  [p \in DOMAIN t |->
     IF p = patente THEN [km |-> km, fecha_service |-> fecha] ELSE t[p]]

\* database.py:330-372: INSERT INTO historial_service, then the UPDATE of
\* the vehicle's fecha_service and km; the INSERT raises where foreign keys
\* are enforced and the vehicle does not exist.
add_service_record(b, patente, fecha, km) ==
  IF ClaveForaneaVigente(b) /\ patente \notin DOMAIN b.vehiculos THEN b
  ELSE [b EXCEPT
          !.historial_service =
             Append(@, [patente |-> patente, fecha |-> fecha, km |-> km]),
          !.vehiculos = ActualizarVehiculo(@, patente, fecha, km)]

\* secure_database.py:621-725: the same after the check that the vehicle
\* exists (the arguments pass the validations).
secure_add_service_record(b, patente, fecha, km) ==
  IF patente \notin DOMAIN b.vehiculos THEN b
  ELSE [b EXCEPT
          !.historial_service =
             Append(@, [patente |-> patente, fecha |-> fecha, km |-> km]),
          !.vehiculos = ActualizarVehiculo(@, patente, fecha, km)]

\* database.py:374-402: INSERT INTO incidentes
add_incident(b, patente, fecha) ==
  IF ClaveForaneaVigente(b) /\ patente \notin DOMAIN b.vehiculos THEN b
  ELSE [b EXCEPT !.incidentes =
          Append(@, [patente |-> patente, fecha |-> fecha])]

\* database.py:752-780: INSERT INTO programacion_mantenimiento; id is the
\* serial key, recordatorio_enviado and estado take the defaults of the
\* table (lines 89-101).
add_maintenance_schedule(b, patente, fecha_programada, km_programado) ==
  IF ClaveForaneaVigente(b) /\ patente \notin DOMAIN b.vehiculos THEN b
  ELSE [b EXCEPT !.programacion_mantenimiento =
          Append(@, [id |-> Len(@) + 1,
                     patente |-> patente,
                     fecha_programada |-> fecha_programada,
                     km_programado |-> km_programado,
                     recordatorio_enviado |-> FALSE,
                     estado |-> "PENDIENTE"])]

\* The rows of programacion_mantenimiento JOIN vehiculos with the id.
Programaciones(b, id_programacion) ==
  {i \in 1..Len(b.programacion_mantenimiento) :
     /\ b.programacion_mantenimiento[i].id = id_programacion
     /\ b.programacion_mantenimiento[i].patente \in DOMAIN b.vehiculos}

\* database.py:831-868: UPDATE programacion_mantenimiento SET <kwargs>
\* WHERE id = id_programacion
update_maintenance_schedule(b, id_programacion, kwargs) ==
  [b EXCEPT !.programacion_mantenimiento =
     [i \in 1..Len(@) |->
        IF @[i].id = id_programacion
        THEN [f \in DOMAIN @[i] |->
                IF f \in DOMAIN kwargs THEN kwargs[f] ELSE @[i][f]]
        ELSE @[i]]]

\* database.py:908-909, 922-923: the reminder window, in days and in km.
DiasAviso == 7
MargenKm == 500

\* database.py:891-933: the ids of the pending schedules of existing
\* vehicles whose reminder was not sent and that are due within DiasAviso
\* days of today or within MargenKm km of the vehicle's odometer.
get_maintenance_reminders(b, hoy) ==
  {b.programacion_mantenimiento[i].id :
     i \in {j \in 1..Len(b.programacion_mantenimiento) :
              LET m == b.programacion_mantenimiento[j]
              IN  /\ m.patente \in DOMAIN b.vehiculos
                  /\ m.estado = "PENDIENTE"
                  /\ ~m.recordatorio_enviado
                  /\ \/ m.fecha_programada <= hoy + DiasAviso
                     \/ b.vehiculos[m.patente].km
                          >= m.km_programado - MargenKm}}

RECURSIVE MarcarEnviados(_, _)
MarcarEnviados(b, ids) ==
  IF ids = {} THEN b
  ELSE LET id == CHOOSE x \in ids : TRUE
       IN  MarcarEnviados(
             update_maintenance_schedule(b, id,
                                         [recordatorio_enviado |-> TRUE]),
             ids \ {id})

\* Mutant of process_maintenance_reminders: the reminders are marked only
\* when addresses were given.
process_maintenance_reminders_con_emails(b, emails, hoy) ==
  IF emails THEN MarcarEnviados(b, get_maintenance_reminders(b, hoy)) ELSE b

\* database.py:1022-1096: every reminder fetched is marked as sent, before
\* and whether or not a message is sent for it; emails tells whether
\* addresses were given.
process_maintenance_reminders(b, emails, hoy) ==
  MarcarEnviados(b, get_maintenance_reminders(b, hoy))

----------------------------------------------------------------------------
(* The result cache (src/cache_manager.py).  cache_manager holds the        *)
(* singleton's fields (cache: the dict, as its items in insertion order;    *)
(* max_size; enabled) and the files of CACHE_DIR (cache_state: the content  *)
(* of cache_state.json, pkl: the content of the <key>.pkl files).  An item  *)
(* is [key, data, expires_at, last_accessed]; created_at and access_count   *)
(* are bookkeeping that no operation reads back.  Every method reads the    *)
(* clock once, as `now'.                                                    *)

\* DEFAULT_CACHE_SIZE, on the scale of the model.
MaxSize == 2

Claves == {"k1", "k2", "k3"}
Datos == {[tipo |-> "str", valor |-> "v1"]}
ClavesDisco == {"k1", "k2"}
DatosDisco == {[tipo |-> "str", valor |-> v] : v \in {"v1", "v2"}}
Ttls == {1}

\* Python's None: the value returned for a miss.
None == [tipo |-> "NoneType"]

\* The positions of key in the dict (none or one).
Posiciones(cache, key) == {i \in 1..Len(cache) : cache[i].key = key}

Contiene(cache, key) == Posiciones(cache, key) # {}

\* The dict without the items whose key is in keys.
RECURSIVE Sin(_, _)
Sin(cache, keys) ==
  IF cache = << >> THEN << >>
  ELSE IF cache[1].key \in keys THEN Sin(Tail(cache), keys)
       ELSE <<cache[1]>> \o Sin(Tail(cache), keys)

\* Mutant of is_expired: an item expires one tick after expires_at.
is_expired_con_gracia(item, now) == now > item.expires_at + 1

\* Lines 36-38: CacheItem.is_expired
is_expired(item, now) == now > item.expires_at

\* Lines 40-49: CacheItem.to_dict, without the data.
to_dict(item) ==
  [key |-> item.key,
   expires_at |-> item.expires_at,
   last_accessed |-> item.last_accessed]

\* Lines 236-271: the state file is rewritten; the data of an item is
\* written to <key>.pkl only when that file does not exist.
save_cache_to_disk(m) ==
  [m EXCEPT
     !.cache_state =
        [existe |-> TRUE,
         max_size |-> m.max_size,
         items |-> [i \in 1..Len(m.cache) |-> to_dict(m.cache[i])]],
     !.pkl =
        [k \in DOMAIN m.pkl
              \cup {m.cache[i].key : i \in {j \in 1..Len(m.cache) :
                                             m.cache[j].data # None}} |->
           IF k \in DOMAIN m.pkl THEN m.pkl[k]
           ELSE m.cache[CHOOSE i \in 1..Len(m.cache) :
                          m.cache[i].key = k].data]]

\* Lines 175-198: CacheManager.delete
delete(m, key) ==
  IF Contiene(m.cache, key)
  THEN save_cache_to_disk(
         [m EXCEPT !.cache = Sin(m.cache, {key}),
                   !.pkl = [k \in DOMAIN m.pkl \ {key} |-> m.pkl[k]]])
  ELSE m

\* Lines 229-232: min() over the keys returns the first, in the order of
\* the dict, of those with the least last_accessed.
MasAntiguo(cache) ==
  CHOOSE i \in 1..Len(cache) :
    /\ \A j \in 1..Len(cache) :
         cache[i].last_accessed <= cache[j].last_accessed
    /\ \A j \in 1..(i - 1) :
         cache[j].last_accessed > cache[i].last_accessed

\* Mutant of evict_oldest: the first item of the dict is evicted.
evict_primero(m) ==
  IF m.cache = << >> THEN m
  ELSE delete(m, m.cache[1].key)

\* Lines 223-234: CacheManager.evict_oldest
evict_oldest(m) ==
  IF m.cache = << >> THEN m
  ELSE delete(m, m.cache[MasAntiguo(m.cache)].key)

\* Line 168: self.cache[key] = CacheItem(key, data, ttl); a key of the dict
\* keeps its position, a new key goes last.
Asignar(cache, item) ==
  IF Contiene(cache, item.key)
  THEN [i \in 1..Len(cache) |->
          IF cache[i].key = item.key THEN item ELSE cache[i]]
  ELSE Append(cache, item)

\* Lines 28-34: CacheItem(key, data, ttl)
CacheItem(key, data, ttl, now) ==
  [key |-> key, data |-> data,
   expires_at |-> now + ttl, last_accessed |-> now]

\* Lines 148-173: CacheManager.set
set(m, key, data, ttl, now) ==
  IF ~m.enabled THEN m
  ELSE LET e == IF Len(m.cache) >= m.max_size /\ ~Contiene(m.cache, key)
                THEN evict_oldest(m)
                ELSE m
       IN  save_cache_to_disk(
             [e EXCEPT !.cache =
                Asignar(e.cache, CacheItem(key, data, ttl, now))])

\* Lines 119-146: CacheManager.get; m is the manager afterwards and data
\* the value returned.
get(m, key, now) ==
  IF ~m.enabled \/ ~Contiene(m.cache, key) THEN [m |-> m, data |-> None]
  ELSE LET i == CHOOSE j \in Posiciones(m.cache, key) : TRUE
       IN  IF is_expired(m.cache[i], now)
           THEN [m |-> delete(m, key), data |-> None]
           ELSE [m |-> [m EXCEPT !.cache[i].last_accessed = now],
                 data |-> m.cache[i].data]

RECURSIVE BorrarTodas(_, _)
BorrarTodas(m, keys) ==
  IF keys = << >> THEN m
  ELSE BorrarTodas(delete(m, keys[1]), Tail(keys))

\* The keys of the items of cache that satisfy Expirado, in dict order.
RECURSIVE ClavesExpiradas(_, _)
ClavesExpiradas(cache, now) ==
  IF cache = << >> THEN << >>
  ELSE (IF is_expired(cache[1], now) THEN <<cache[1].key>> ELSE << >>)
         \o ClavesExpiradas(Tail(cache), now)

\* Lines 214-221: CacheManager.cleanup_expired
cleanup_expired(m, now) == BorrarTodas(m, ClavesExpiradas(m.cache, now))

\* Lines 288-306: the items of the state file that have not expired and
\* whose data file exists, each with the data of that file.
RECURSIVE Cargados(_, _, _)
Cargados(items, pkl, now) ==
  IF items = << >> THEN << >>
  ELSE (IF ~is_expired(items[1], now) /\ items[1].key \in DOMAIN pkl
        THEN <<[key |-> items[1].key,
                data |-> pkl[items[1].key],
                expires_at |-> items[1].expires_at,
                last_accessed |-> items[1].last_accessed]>>
        ELSE << >>)
         \o Cargados(Tail(items), pkl, now)

\* Lines 273-312: CacheManager.load_cache_from_disk, into an empty dict.
load_cache_from_disk(m, now) ==
  IF ~m.cache_state.existe THEN m
  ELSE [m EXCEPT !.max_size = m.cache_state.max_size,
                 !.cache = Cargados(m.cache_state.items, m.pkl, now)]

\* Lines 72-86: CacheManager.__init__ in a new process, over the files the
\* previous one left.
NuevoCacheManager(m, now) ==
  cleanup_expired(
    load_cache_from_disk(
      [m EXCEPT !.cache = << >>, !.max_size = MaxSize, !.enabled = TRUE],
      now),
    now)

\* Line 277: cache_state.json does not exist.
SinArchivo == [existe |-> FALSE, max_size |-> 0, items |-> << >>]

\* Lines 14-23, 315: the singleton of a first run, CACHE_DIR empty.
CacheVacio ==
  [cache |-> << >>, max_size |-> MaxSize, enabled |-> TRUE,
   cache_state |-> SinArchivo, pkl |-> << >>]

SinOperacion == [op |-> "ninguna"]

CacheEnReposo ==
  /\ cache_manager = CacheVacio
  /\ ahora = 0
  /\ retorno = SinOperacion

SinAvisos ==
  [ids |-> {}, emails |-> FALSE, previos |-> {}, emails_previos |-> FALSE]
\* No call of secure_database in progress.
SinHilos == [borrar |-> [pc |-> "inicio"], agregar |-> [pc |-> "inicio"]]

\* The parts of the state that the analytics and the database operations
\* leave alone.
RestoEnReposo == CacheEnReposo /\ avisos = SinAvisos /\ hilos = SinHilos

----------------------------------------------------------------------------
(* analizar_km_por_tiempo                                                   *)

\* The values of column 'fecha' that are not a date: a string that
\* pd.to_datetime cannot parse.
FechasInvalidas == {-1}

\* Lines 44 and 103-105: pd.to_datetime(df_km['fecha']) runs with the
\* default errors='raise' and raises when some value cannot be parsed.
ToDatetimeFalla(srv) ==
  \E i \in 1..Len(srv) : srv[i].fecha \in FechasInvalidas

\* Lines 37-105: the exception raised in the body of
\* analizar_km_por_tiempo.
ExcepcionAnalizar(veh, srv) ==
  IF DOMAIN veh # {} /\ Len(srv) # 0 /\ ToDatetimeFalla(srv)
    THEN "ValueError" ELSE SinExcepcion

Tick(dia) == dia * TicksPerDay

\* Timedelta.days of (t2 - t1)
Dias(t1, t2) == (t2 - t1) \div TicksPerDay

\* sort_values by 'fecha' within one patente
OrdenPorFecha(s) ==
  OrdenEstable(s, [j \in 1..Len(s), i \in 1..Len(s) |-> s[j].fecha < s[i].fecha])

\* Mutant of Observaciones: the row of the current odometer is not added.
ObservacionesSinActual(p, veh, srv, hoy) ==
  LET propios == SelectSeq(srv, LAMBDA r : r.patente = p)
  IN  OrdenPorFecha([i \in 1..Len(propios) |->
                       [fecha |-> Tick(propios[i].fecha),
                        km |-> propios[i].km]])

\* Lines 43-56: the service rows of patente p (dates parsed to timestamps,
\* sorted by date), followed by the row of the vehicle's current odometer
\* dated 'today', sorted again by date.
Observaciones(p, veh, srv, hoy) ==
  LET propios == SelectSeq(srv, LAMBDA r : r.patente = p)
      conFecha == [i \in 1..Len(propios) |->
                     [fecha |-> Tick(propios[i].fecha), km |-> propios[i].km]]
      ordenado == OrdenPorFecha(conFecha)
      actual == IF p \in DOMAIN veh
                  THEN <<[fecha |-> hoy, km |-> veh[p]]>> ELSE <<>>
  IN  OrdenPorFecha(ordenado \o actual)

\* Mutant of Pares: no pair is filtered by its number of days.
ParesSinFiltro(obs) ==
  [i \in 1..(IF Len(obs) = 0 THEN 0 ELSE Len(obs) - 1) |->
     [fecha |-> obs[i + 1].fecha,
      km |-> obs[i + 1].km,
      dias |-> Dias(obs[i].fecha, obs[i + 1].fecha),
      km_recorridos |-> obs[i + 1].km - obs[i].km,
      km_por_dia |-> Frac(obs[i + 1].km - obs[i].km,
                          Dias(obs[i].fecha, obs[i + 1].fecha))]]

\* Mutant of Pares: the filter keeps the pairs of dias >= 0.
ParesConDiasCero(obs) ==
  LET todos == [i \in 1..(IF Len(obs) = 0 THEN 0 ELSE Len(obs) - 1) |->
                  [fecha |-> obs[i + 1].fecha,
                   km |-> obs[i + 1].km,
                   dias |-> Dias(obs[i].fecha, obs[i + 1].fecha),
                   km_recorridos |-> obs[i + 1].km - obs[i].km]]
      validos == SelectSeq(todos, LAMBDA r : r.dias >= 0)
  IN  [i \in 1..Len(validos) |->
         [fecha |-> validos[i].fecha, km |-> validos[i].km,
          dias |-> validos[i].dias,
          km_recorridos |-> validos[i].km_recorridos,
          km_por_dia |-> Frac(validos[i].km_recorridos, validos[i].dias)]]

\* Lines 59-71: the consecutive pairs (shift(1) within the group), without
\* the first row (dropna) and the pairs of dias <= 0, each with its rate.
Pares(obs) ==
  LET todos == [i \in 1..(IF Len(obs) = 0 THEN 0 ELSE Len(obs) - 1) |->
                  [fecha |-> obs[i + 1].fecha,
                   km |-> obs[i + 1].km,
                   dias |-> Dias(obs[i].fecha, obs[i + 1].fecha),
                   km_recorridos |-> obs[i + 1].km - obs[i].km]]
      validos == SelectSeq(todos, LAMBDA r : r.dias > 0)
  IN  [i \in 1..Len(validos) |->
         [fecha |-> validos[i].fecha, km |-> validos[i].km,
          dias |-> validos[i].dias,
          km_recorridos |-> validos[i].km_recorridos,
          km_por_dia |-> Frac(validos[i].km_recorridos, validos[i].dias)]]

RECURSIVE SumaTasas(_)
SumaTasas(ps) ==
  IF Len(ps) = 0 THEN Frac(0, 1)
  ELSE FracSuma(ps[1].km_por_dia, SumaTasas(Tail(ps)))

\* Mutant of Media: the rate of the latest pair instead of the mean.
MediaUltimoPar(ps) == ps[Len(ps)].km_por_dia

\* Mutant of Media: the sum of the rates, not divided by their number.
MediaSinDividir(ps) == SumaTasas(ps)

\* mean of the group's rates
Media(ps) == LET s == SumaTasas(ps) IN Frac(s.n, s.d * Len(ps))

Minimo(ps) ==
  (CHOOSE i \in 1..Len(ps) :
     \A j \in 1..Len(ps) : FracMenorIgual(ps[i].km_por_dia, ps[j].km_por_dia)
  )
Maximo(ps) ==
  (CHOOSE i \in 1..Len(ps) :
     \A j \in 1..Len(ps) : FracMenorIgual(ps[j].km_por_dia, ps[i].km_por_dia)
  )

\* Lines 81-96: one row per patente that kept at least one pair.
FilaStats(p, ps) ==
  LET m == Media(ps)
  IN  [patente |-> p,
       km_por_dia_mean |-> m,
       km_por_dia_min |-> ps[Minimo(ps)].km_por_dia,
       km_por_dia_max |-> ps[Maximo(ps)].km_por_dia,
       km_por_dia_count |-> Len(ps),
       km_last |-> ps[Len(ps)].km,
       fecha_last |-> ps[Len(ps)].fecha,
       km_anual_estimado |-> Frac(m.n * 365, m.d)]

PatentesDe(veh, srv) ==
  DOMAIN veh \cup {srv[i].patente : i \in 1..Len(srv)}

\* Lines 37-105: the result by patente; the empty function is the empty
\* DataFrame.
AnalizarKmPorTiempo(veh, srv, hoy) ==
  IF DOMAIN veh = {} \/ Len(srv) = 0 THEN << >>
  ELSE IF ExcepcionAnalizar(veh, srv) # SinExcepcion THEN << >>
  ELSE LET pares == [p \in PatentesDe(veh, srv) |->
                       Pares(Observaciones(p, veh, srv, hoy))]
           conFilas == {p \in DOMAIN pares : Len(pares[p]) > 0}
       IN  [p \in conFilas |-> FilaStats(p, pares[p])]

----------------------------------------------------------------------------
(* predecir_proximos_mantenimientos                                         *)

UmbralUrgente == 15
UmbralProximo == 30

\* Lines 136-138: sort_values('fecha', ascending=False).drop_duplicates(
\* 'patente') keeps, for each patente, a service row of its greatest date.
\* The single-column sort is not stable, so among rows of the same greatest
\* date any one may be kept.  The result maps each patente with a service to
\* the index of the row kept.
UltimosServicios(srv) ==
  LET conService == {srv[i].patente : i \in 1..Len(srv)}
      masReciente(p, i) ==
        /\ srv[i].patente = p
        /\ \A j \in 1..Len(srv) :
             srv[j].patente = p => srv[j].fecha <= srv[i].fecha
  IN  {u \in [conService -> 1..Len(srv)] :
         \A p \in conService : masReciente(p, u[p])}

\* Line 99: the rows of stats ordered by mean rate, greatest first; rows of
\* equal mean come in any order.
OrdenesStats(st) ==
  LET n == Cardinality(DOMAIN st)
  IN  {o \in [1..n -> DOMAIN st] :
         /\ \A i, j \in 1..n : i # j => o[i] # o[j]
         /\ \A i, j \in 1..n :
              i < j => FracMenorIgual(st[o[j]].km_por_dia_mean,
                                      st[o[i]].km_por_dia_mean)}

\* Mutant of DiasHastaUmbralKm: negative values are kept.
DiasHastaUmbralKmSinAcotar(umbral_km, km_desde, tasa) ==
  CeilDiv((umbral_km - km_desde) * tasa.d, tasa.n)

\* Lines 157-161: ceil((umbral_km - km_desde) / km_por_dia) as an integer,
\* negative values replaced by 0.  Only for a rate that is not zero.
DiasHastaUmbralKm(umbral_km, km_desde, tasa) ==
  LET d == CeilDiv((umbral_km - km_desde) * tasa.d, tasa.n)
  IN  IF d < 0 THEN 0 ELSE d

\* Mutant of FechaProximoService: the later of the two dates.
FechaProximoServiceMax(fecha_estimada_km, fecha_estimada_tiempo) ==
  IF fecha_estimada_km >= fecha_estimada_tiempo
    THEN fecha_estimada_km ELSE fecha_estimada_tiempo

\* Line 170: the row-wise minimum of the two estimated dates.
FechaProximoService(fecha_estimada_km, fecha_estimada_tiempo) ==
  Min2(fecha_estimada_km, fecha_estimada_tiempo)

\* Mutant of Estado: the bands' upper limits are exclusive.
EstadoLimiteExclusivo(d) ==
  IF d < 0 THEN "ATRASADO"
  ELSE IF d < UmbralUrgente THEN "URGENTE"
  ELSE IF d < UmbralProximo THEN "PROXIMO"
  ELSE "PLANIFICADO"

\* Lines 174-181: numpy.select takes the first condition that holds.
Estado(d) ==
  IF d < 0 THEN "ATRASADO"
  ELSE IF d <= UmbralUrgente THEN "URGENTE"
  ELSE IF d <= UmbralProximo THEN "PROXIMO"
  ELSE IF d > UmbralProximo THEN "PLANIFICADO"
  ELSE "DESCONOCIDO"

\* The labels as Python strings: their Unicode code points.
Codigos(e) ==
  CASE e = "ATRASADO"    -> <<65, 84, 82, 65, 83, 65, 68, 79>>
    [] e = "URGENTE"     -> <<85, 82, 71, 69, 78, 84, 69>>
    [] e = "PROXIMO"     -> <<80, 82, 211, 88, 73, 77, 79>>
    [] e = "PLANIFICADO" -> <<80, 76, 65, 78, 73, 70, 73, 67, 65, 68, 79>>
    [] e = "DESCONOCIDO" -> <<68, 69, 83, 67, 79, 78, 79, 67, 73, 68, 79>>

\* Python's order of strings: lexicographic by code point.
StrMenor(a, b) ==
  LET s == Codigos(a)
      t == Codigos(b)
      m == IF Len(s) <= Len(t) THEN Len(s) ELSE Len(t)
  IN  \/ \E k \in 1..m : /\ \A i \in 1..(k - 1) : s[i] = t[i]
                         /\ s[k] < t[k]
      \/ /\ Len(s) < Len(t)
         /\ \A i \in 1..m : s[i] = t[i]

\* Line 184: sort_values(['estado', 'dias_hasta_service']): the order of
\* its keys.
MenorPrediccion(a, b) ==
  \/ StrMenor(a.estado, b.estado)
  \/ /\ a.estado = b.estado
     /\ a.dias_hasta_service < b.dias_hasta_service

\* Lines 128-154: the row of patente p before the predictions: the columns
\* of stats joined with the last service (today and the current odometer
\* when the patente has none).
FilaBase(p, st, srv, ultimo, hoy) ==
  LET conUltimo == p \in DOMAIN ultimo
      fus == IF conUltimo THEN Tick(srv[ultimo[p]].fecha) ELSE hoy
      kus == IF conUltimo THEN srv[ultimo[p]].km ELSE st[p].km_last
  IN  [patente |-> p,
       km_actual |-> st[p].km_last,
       ultima_fecha |-> st[p].fecha_last,
       km_por_dia |-> st[p].km_por_dia_mean,
       fecha_ultimo_service |-> fus,
       km_ultimo_service |-> kus,
       dias_desde_ultimo_service |-> Dias(fus, hoy),
       km_desde_ultimo_service |-> st[p].km_last - kus]

\* Lines 157-181: the predictions of one row.
FilaPrediccion(b, umbral_km, umbral_dias, hoy) ==
  LET dk == DiasHastaUmbralKm(umbral_km, b.km_desde_ultimo_service,
                              b.km_por_dia)
      fkm == hoy + Tick(dk)
      ft == b.fecha_ultimo_service + Tick(umbral_dias)
      fps == FechaProximoService(fkm, ft)
      dhs == Dias(hoy, fps)
  IN  [patente |-> b.patente,
       km_actual |-> b.km_actual,
       km_por_dia |-> b.km_por_dia,
       fecha_ultimo_service |-> b.fecha_ultimo_service,
       km_ultimo_service |-> b.km_ultimo_service,
       km_desde_ultimo_service |-> b.km_desde_ultimo_service,
       dias_hasta_umbral_km |-> dk,
       fecha_estimada_km |-> fkm,
       fecha_estimada_tiempo |-> ft,
       fecha_proximo_service |-> fps,
       dias_hasta_service |-> dhs,
       estado |-> Estado(dhs)]

\* Line 184
OrdenarPredicciones(filas) ==
  OrdenEstable(filas, [j \in 1..Len(filas), i \in 1..Len(filas) |->
                         MenorPrediccion(filas[j], filas[i])])

\* Lines 157-158: the division by a rate of zero gives inf or NaN, and
\* astype(int) of a column holding one raises (pandas: "Cannot convert
\* non-finite values (NA or inf) to integer").
ConversionFalla(bases) == \E i \in 1..Len(bases) : bases[i].km_por_dia.n = 0

\* Lines 120-190: the result of the call: the rows returned and whether the
\* except branch was taken.  st is the result of analizar_km_por_tiempo,
\* orden the order of its rows, ultimo the last service kept per patente.
PredecirProximosMantenimientos(st, orden, srv, ultimo, umbral_km, umbral_dias, hoy) ==
  IF DOMAIN st = {}
    THEN [filas |-> << >>, error |-> FALSE, excepcion |-> SinExcepcion]
  ELSE LET bases == [i \in 1..Len(orden) |->
                       FilaBase(orden[i], st, srv, ultimo, hoy)]
       IN  IF ConversionFalla(bases)
             THEN [filas |-> << >>, error |-> TRUE,
                   excepcion |-> "IntCastingNaNError"]
             ELSE [filas |-> OrdenarPredicciones(
                               [i \in 1..Len(bases) |->
                                  FilaPrediccion(bases[i], umbral_km,
                                                 umbral_dias, hoy)]),
                   error |-> FALSE, excepcion |-> SinExcepcion]

----------------------------------------------------------------------------
(* State machine of the analytics calls: the tables are the inputs, one     *)
(* call is made on them.                                                    *)

Registros == [patente : Patentes, fecha : Fechas, km : KmsService]

RECURSIVE Tablas(_)
Tablas(n) ==
  IF n = 0 THEN {<<>>}
  ELSE Tablas(n - 1) \cup
       {Append(t, r) : t \in {u \in Tablas(n - 1) : Len(u) = n - 1},
                       r \in Registros}

\* The clock readings of a call: midnight of today, and later in the day.
Instantes == {Tick(HoyDia), Tick(HoyDia) + 1}

SinLlamada == [op |-> "ninguna"]

InitAnalitica ==
  /\ df_vehiculos \in [Patentes -> KmsVehiculo]
  /\ df_services \in Tablas(MaxServices)
  /\ pc = "inicio"
  /\ llamada = SinLlamada
  /\ stats = << >>
  /\ predicciones = << >>
  /\ error = FALSE
  /\ propagada = SinExcepcion
  /\ BDEnReposo
  /\ RestoEnReposo

\* A call of analizar_km_por_tiempo(df_vehiculos, df_services) made at one
\* of the given instants.
LlamarAnalizar(instantes) ==
  /\ pc = "inicio"
  /\ \E hoy \in instantes :
       /\ stats' = AnalizarKmPorTiempo(df_vehiculos, df_services, hoy)
       /\ llamada' = [op |-> "analizar", hoy |-> hoy]
  /\ pc' = "analizado"
  /\ propagada' =
       Propagar(propagada, ExcepcionAnalizar(df_vehiculos, df_services))
  /\ UNCHANGED <<df_vehiculos, df_services, predicciones, error, varsCostos, bd, varsResto>>

Analizar == LlamarAnalizar(Instantes)

\* A call of predecir_proximos_mantenimientos(df_vehiculos, df_services,
\* umbral_km, umbral_dias) made at one of the given instants with thresholds
\* of the given sets.
LlamarPredecir(instantes, umbrales_km, umbrales_dias) ==
  /\ pc = "inicio"
  /\ \E hoy \in instantes :
       LET st == AnalizarKmPorTiempo(df_vehiculos, df_services, hoy)
       IN  \E orden \in OrdenesStats(st),
              ultimo \in UltimosServicios(df_services),
              umbral_km \in umbrales_km, umbral_dias \in umbrales_dias :
             LET r == PredecirProximosMantenimientos(
                        st, orden, df_services, ultimo, umbral_km,
                        umbral_dias, hoy)
             IN  /\ stats' = st
                 /\ predicciones' = r.filas
                 /\ error' = r.error
                 /\ propagada' =
                      Propagar(Propagar(propagada,
                                        ExcepcionAnalizar(df_vehiculos,
                                                          df_services)),
                               r.excepcion)
                 /\ llamada' = [op |-> "predecir", hoy |-> hoy,
                                umbral_km |-> umbral_km,
                                umbral_dias |-> umbral_dias]
  /\ pc' = "predicho"
  /\ UNCHANGED <<df_vehiculos, df_services, varsCostos, bd, varsResto>>

Predecir == LlamarPredecir(Instantes, UmbralesKm, UmbralesDias)

----------------------------------------------------------------------------
(* crear_modelo_prediccion_costos and predecir_costo_service                *)
(*                                                                          *)
(* The artifact is the pair of files modelo_costos.pkl and                  *)
(* columnas_modelo_costos.pkl.  A file is absent, partial (opened with      *)
(* 'wb', which truncates it, and not yet closed) or complete; each content  *)
(* carries the number of the training run that wrote it.  The fitted        *)
(* pipeline is a linear function of the features; its coefficients (an      *)
(* "ajuste") are the outcome of the fit, in thousandths of a currency unit. *)

MinRegistros == 10

\* The training input: whether df_vehiculos has rows, the service rows by
\* kind (rows of a listed vehicle with costo > 0 and a km, with costo 0,
\* with km null; rows of a patente that df_vehiculos does not list), and
\* whether every 'fecha' parses.  With no vehicles, no service row has one.
TablasCostos ==
  {t \in [hay_vehiculos : BOOLEAN,
          validos : {0, MinRegistros - 1, MinRegistros, MaxValidos},
          costo_cero : 0..1, km_nulo : 0..1, sin_vehiculo : 0..1,
          fechas_validas : BOOLEAN] :
     ~t.hay_vehiculos => t.validos + t.costo_cero + t.km_nulo = 0}

TablaVacia ==
  [hay_vehiculos |-> TRUE, validos |-> 0, costo_cero |-> 0, km_nulo |-> 0,
   sin_vehiculo |-> 0, fechas_validas |-> TRUE]

NumFilas(t) == t.validos + t.costo_cero + t.km_nulo + t.sin_vehiculo

\* Line 204: df_services.empty or df_vehiculos.empty
SinDatos(t) == NumFilas(t) = 0 \/ ~t.hay_vehiculos

\* Lines 208-211: the inner merge on 'patente'
Unir(t) == [t EXCEPT !.sin_vehiculo = 0]

\* Line 214: df[df['costo'] > 0]
FiltrarCostoPositivo(t) == [t EXCEPT !.costo_cero = 0]

\* Line 215: df.dropna(subset=['costo', 'km'])
FiltrarNulos(t) == [t EXCEPT !.km_nulo = 0]

\* Lines 208-215
PrepararDatos(t) == FiltrarNulos(FiltrarCostoPositivo(Unir(t)))

\* Mutant of DatosInsuficientes: the rows are counted before the filters.
DatosInsuficientesSinFiltrar(t) == NumFilas(t) < MinRegistros

\* Line 217
DatosInsuficientes(t) == NumFilas(PrepararDatos(t)) < MinRegistros

MarcasVistas == {"FORD"}
Marcas == {"FORD", "KIA"}
KmsPrediccion == {0, 1000}

\* Lines 229-256: the outcomes of model.fit.
Ajustes ==
  {[intercepto |-> 120005, coef_km |-> 2,
    coef_marca |-> [m \in MarcasVistas |-> -200000]],
   [intercepto |-> -15, coef_km |-> 0,
    coef_marca |-> [m \in MarcasVistas |-> 300]]}

Ausente == [estado |-> "ausente"]
Parcial(c) == [estado |-> "parcial", corrida |-> c]
ModeloCompleto(c, a) == [estado |-> "completo", corrida |-> c, ajuste |-> a]
ColumnasCompleto(c) == [estado |-> "completo", corrida |-> c]

RetornoFallo(msg) == [modelo |-> "None", mensaje |-> msg]
RetornoExito(c) == [modelo |-> "model", corrida |-> c, mensaje |-> "R2"]
SinRetorno == [modelo |-> "pendiente"]

Pendiente == [tipo |-> "pendiente"]
Ninguno == [tipo |-> "None"]
Numero(x) == [tipo |-> "float", valor |-> x]
Nada == [estado |-> "nada"]

InitCostos ==
  /\ archivos = [modelo |-> Ausente, columnas |-> Ausente]
  /\ entrenamiento = [pc |-> "inactivo", corrida |-> 0,
                      tabla |-> TablaVacia, retorno |-> SinRetorno]
  /\ lector = [pc |-> "inactivo", marca |-> "FORD", km |-> 0,
               modelo_visto |-> Nada, columnas_visto |-> Nada,
               retorno |-> Pendiente]

\* crear_modelo_prediccion_costos(df_services, df_vehiculos) is called.
LlamarEntrenar ==
  /\ entrenamiento.pc = "inactivo"
  /\ \E t \in TablasCostos :
       /\ entrenamiento.corrida < MaxCorridas \/ DatosInsuficientes(t)
       /\ entrenamiento' = [pc |-> "llamado", corrida |-> entrenamiento.corrida,
                            tabla |-> t, retorno |-> SinRetorno]
  /\ UNCHANGED <<archivos, lector, varsAnalitica, propagada, bd, varsResto>>

\* Lines 204-218: the two returns for insufficient data.
EntrenarSinDatos ==
  /\ entrenamiento.pc = "llamado"
  /\ \/ /\ SinDatos(entrenamiento.tabla)
        /\ entrenamiento' =
             [entrenamiento EXCEPT
                !.pc = "inactivo",
                !.retorno = RetornoFallo("Datos insuficientes")]
     \/ /\ ~SinDatos(entrenamiento.tabla)
        /\ DatosInsuficientes(entrenamiento.tabla)
        /\ entrenamiento' =
             [entrenamiento EXCEPT
                !.pc = "inactivo",
                !.retorno =
                  RetornoFallo("Datos insuficientes (minimo 10 registros)")]
  /\ UNCHANGED <<archivos, lector, varsAnalitica, propagada, bd, varsResto>>

\* Lines 221-262 and 282-284: pd.to_datetime raises on a date it cannot
\* parse; the except branch returns the error.
EntrenarError ==
  /\ entrenamiento.pc = "llamado"
  /\ ~SinDatos(entrenamiento.tabla)
  /\ ~DatosInsuficientes(entrenamiento.tabla)
  /\ ~entrenamiento.tabla.fechas_validas
  /\ entrenamiento' = [entrenamiento EXCEPT !.pc = "inactivo",
                                            !.retorno = RetornoFallo("Error")]
  /\ propagada' = Propagar(propagada, "ValueError")
  /\ UNCHANGED <<archivos, lector, varsAnalitica, bd, varsResto>>

\* Lines 221-262: the model is fitted.
EntrenarAjustar ==
  /\ entrenamiento.pc = "llamado"
  /\ ~SinDatos(entrenamiento.tabla)
  /\ ~DatosInsuficientes(entrenamiento.tabla)
  /\ entrenamiento.tabla.fechas_validas
  /\ \E a \in Ajustes :
       entrenamiento' = [pc |-> "abrir_modelo",
                         corrida |-> entrenamiento.corrida + 1,
                         tabla |-> entrenamiento.tabla,
                         ajuste |-> a,
                         retorno |-> SinRetorno]
  /\ UNCHANGED <<archivos, lector, varsAnalitica, propagada, bd, varsResto>>

\* Line 266: open(modelo_path, 'wb') truncates the file.
AbrirModelo ==
  /\ entrenamiento.pc = "abrir_modelo"
  /\ archivos' = [archivos EXCEPT !.modelo = Parcial(entrenamiento.corrida)]
  /\ entrenamiento' = [entrenamiento EXCEPT !.pc = "volcar_modelo"]
  /\ UNCHANGED <<lector, varsAnalitica, propagada, bd, varsResto>>

\* Line 267 and the end of the with block: the pickle is written and the
\* file closed.
VolcarModelo ==
  /\ entrenamiento.pc = "volcar_modelo"
  /\ archivos' = [archivos EXCEPT
                    !.modelo = ModeloCompleto(entrenamiento.corrida,
                                              entrenamiento.ajuste)]
  /\ entrenamiento' = [entrenamiento EXCEPT !.pc = "abrir_columnas"]
  /\ UNCHANGED <<lector, varsAnalitica, propagada, bd, varsResto>>

\* Line 275: open(columnas_path, 'wb') truncates the file.
AbrirColumnas ==
  /\ entrenamiento.pc = "abrir_columnas"
  /\ archivos' = [archivos EXCEPT !.columnas = Parcial(entrenamiento.corrida)]
  /\ entrenamiento' = [entrenamiento EXCEPT !.pc = "volcar_columnas"]
  /\ UNCHANGED <<lector, varsAnalitica, propagada, bd, varsResto>>

\* Lines 276-280: the feature names are written, the file closed, and the
\* call returns the model.
VolcarColumnas ==
  /\ entrenamiento.pc = "volcar_columnas"
  /\ archivos' = [archivos EXCEPT
                    !.columnas = ColumnasCompleto(entrenamiento.corrida)]
  /\ entrenamiento' =
       [pc |-> "inactivo", corrida |-> entrenamiento.corrida,
        tabla |-> entrenamiento.tabla,
        retorno |-> RetornoExito(entrenamiento.corrida)]
  /\ UNCHANGED <<lector, varsAnalitica, propagada, bd, varsResto>>

\* Line 326: the pipeline's output for one row, in thousandths.  A category
\* not seen in training encodes to zeros (handle_unknown='ignore').
SalidaModelo(a, marca, km) ==
  a.intercepto + a.coef_km * km
    + (IF marca \in DOMAIN a.coef_marca THEN a.coef_marca[marca] ELSE 0)

\* round(x, 2): x in thousandths to hundredths, halves to the even one.
Redondear2(x) ==
  LET q == x \div 10
      r == x % 10
  IN  IF r < 5 THEN q
      ELSE IF r > 5 THEN q + 1
      ELSE IF q % 2 = 0 THEN q ELSE q + 1

\* Mutant of CostoEstimado: the value is rounded and not limited.
CostoEstimadoSinLimite(a, marca, km) == Redondear2(SalidaModelo(a, marca, km))

\* Lines 326-329: max(0, round(costo_estimado, 2)), in hundredths.
CostoEstimado(a, marca, km) ==
  LET c == Redondear2(SalidaModelo(a, marca, km))
  IN  IF c > 0 THEN c ELSE 0

\* The record of a call of predecir_costo_service: its arguments, what it
\* read of each file, and its return value.
Lectura(p, marca, km, mv, cv, ret) ==
  [pc |-> p, marca |-> marca, km |-> km, modelo_visto |-> mv,
   columnas_visto |-> cv, retorno |-> ret]

\* Mutant of NoExiste: the existence test is skipped.
NoExisteOmitido(archivo) == FALSE

\* Lines 303-305: not os.path.exists(path)
NoExiste(archivo) == archivo = Ausente

\* Lines 300-305: predecir_costo_service(vehiculo, km, tipo_service) is
\* called and tests os.path.exists(modelo_path).
PredecirCostoInicio ==
  /\ lector.pc = "inactivo"
  /\ \E marca \in Marcas, km \in KmsPrediccion :
       IF NoExiste(archivos.modelo)
         THEN lector' = Lectura("inactivo", marca, km, Nada, Nada, Ninguno)
         ELSE lector' = Lectura("existe_columnas", marca, km, Nada, Nada,
                                Pendiente)
  /\ UNCHANGED <<archivos, entrenamiento, varsAnalitica, propagada, bd, varsResto>>

\* Lines 303-305: os.path.exists(columnas_path).
ExisteColumnas ==
  /\ lector.pc = "existe_columnas"
  /\ IF NoExiste(archivos.columnas)
       THEN lector' = [lector EXCEPT !.pc = "inactivo", !.retorno = Ninguno]
       ELSE lector' = [lector EXCEPT !.pc = "cargar_modelo"]
  /\ UNCHANGED <<archivos, entrenamiento, varsAnalitica, propagada, bd, varsResto>>

\* Lines 307-308 and 333-335: pickle.load of the model file; a partial file
\* makes it raise, and the except branch returns None.
CargarModelo ==
  /\ lector.pc = "cargar_modelo"
  /\ IF archivos.modelo.estado = "completo"
       THEN lector' = [lector EXCEPT !.pc = "cargar_columnas",
                                     !.modelo_visto = archivos.modelo]
       ELSE lector' = [lector EXCEPT !.pc = "inactivo",
                                     !.modelo_visto = archivos.modelo,
                                     !.retorno = Ninguno]
  /\ propagada' =
       Propagar(propagada, IF archivos.modelo.estado = "completo"
                             THEN SinExcepcion ELSE "EOFError")
  /\ UNCHANGED <<archivos, entrenamiento, varsAnalitica, bd, varsResto>>

\* Lines 310-335: pickle.load of the feature-name file, then the prediction
\* with the model loaded.
CargarColumnas ==
  /\ lector.pc = "cargar_columnas"
  /\ IF archivos.columnas.estado = "completo"
       THEN lector' =
              [lector EXCEPT
                 !.pc = "inactivo",
                 !.columnas_visto = archivos.columnas,
                 !.retorno = Numero(CostoEstimado(lector.modelo_visto.ajuste,
                                                  lector.marca, lector.km))]
       ELSE lector' = [lector EXCEPT !.pc = "inactivo",
                                     !.columnas_visto = archivos.columnas,
                                     !.retorno = Ninguno]
  /\ propagada' =
       Propagar(propagada, IF archivos.columnas.estado = "completo"
                             THEN SinExcepcion ELSE "EOFError")
  /\ UNCHANGED <<archivos, entrenamiento, varsAnalitica, bd, varsResto>>

Entrenar ==
  \/ LlamarEntrenar
  \/ EntrenarSinDatos
  \/ EntrenarError
  \/ EntrenarAjustar
  \/ AbrirModelo
  \/ VolcarModelo
  \/ AbrirColumnas
  \/ VolcarColumnas

PredecirCosto ==
  \/ PredecirCostoInicio
  \/ ExisteColumnas
  \/ CargarModelo
  \/ CargarColumnas

\* The inputs of the analytics calls, fixed while the cost model runs.
AnaliticaEnReposo ==
  /\ df_vehiculos = [p \in Patentes |-> 100]
  /\ df_services = << >>
  /\ pc = "inicio"
  /\ llamada = SinLlamada
  /\ stats = << >>
  /\ predicciones = << >>
  /\ error = FALSE

InitModeloCostos ==
  AnaliticaEnReposo /\ InitCostos /\ propagada = SinExcepcion /\ BDEnReposo
  /\ RestoEnReposo
NextCostos == Entrenar \/ PredecirCosto
SpecCostos == InitModeloCostos /\ [][NextCostos]_vars

Init == InitAnalitica /\ InitCostos
Next == Analizar \/ Predecir
Spec == Init /\ [][Next]_vars

----------------------------------------------------------------------------
(* The analytics calls on tables that may lack vehicles or services and     *)
(* may hold a 'fecha' that is not a date.                                   *)

\* The tables of at most n rows drawn from regs.
RECURSIVE TablasDe(_, _)
TablasDe(regs, n) ==
  IF n = 0 THEN {<<>>}
  ELSE LET menores == TablasDe(regs, n - 1)
       IN  menores \cup
           {Append(t, r) : t \in {u \in menores : Len(u) = n - 1}, r \in regs}

KmsVehiculoEntradas == {300}

TablasVehiculos ==
  UNION {[S -> KmsVehiculoEntradas] : S \in SUBSET Patentes}

RegistrosEntradas ==
  [patente : Patentes, fecha : Fechas \cup FechasInvalidas, km : KmsService]

InitEntradas ==
  /\ df_vehiculos \in TablasVehiculos
  /\ df_services \in TablasDe(RegistrosEntradas, MaxServices)
  /\ pc = "inicio"
  /\ llamada = SinLlamada
  /\ stats = << >>
  /\ predicciones = << >>
  /\ error = FALSE
  /\ propagada = SinExcepcion
  /\ BDEnReposo
  /\ RestoEnReposo
  /\ InitCostos

SpecEntradas == InitEntradas /\ [][Next]_vars

----------------------------------------------------------------------------
(* The analytics calls on service records dated up to today and beyond.     *)

FechasRecientes == {HoyDia - 10, HoyDia, HoyDia + 1}

RegistrosRecientes ==
  [patente : Patentes, fecha : FechasRecientes, km : KmsService]

InitRecientes ==
  /\ df_vehiculos \in [Patentes -> KmsVehiculoEntradas]
  /\ df_services \in TablasDe(RegistrosRecientes, MaxServices)
  /\ pc = "inicio"
  /\ llamada = SinLlamada
  /\ stats = << >>
  /\ predicciones = << >>
  /\ error = FALSE
  /\ propagada = SinExcepcion
  /\ BDEnReposo
  /\ RestoEnReposo
  /\ InitCostos

SpecRecientes == InitRecientes /\ [][Next]_vars

----------------------------------------------------------------------------
(* The four functions, one exercised at a time: the analytics calls on the  *)
(* tables above while the cost model is untouched, or the cost model's      *)
(* calls while the analytics inputs are at rest.                            *)

AnalizarAislado == InitCostos /\ Analizar
PredecirAislado == InitCostos /\ Predecir
EntrenarAislado == AnaliticaEnReposo /\ Entrenar
PredecirCostoAislado == AnaliticaEnReposo /\ PredecirCosto

InitExcepciones == InitEntradas \/ InitModeloCostos
NextExcepciones ==
  \/ AnalizarAislado
  \/ PredecirAislado
  \/ EntrenarAislado
  \/ PredecirCostoAislado
SpecExcepciones == InitExcepciones /\ [][NextExcepciones]_vars

----------------------------------------------------------------------------
(* The worked scenario of the specification: one vehicle, days counted from *)
(* 2024-01-01 (day 0); 2024-07-01 is day 182, 2024-10-01 day 274,           *)
(* 2024-12-28 day 362, 2025-07-21 day 567 and 2025-10-04 day 642.           *)

PatentesEscenario == {"A"}
FechasEscenario == {0, 182}
KmsServiceEscenario == {10000, 13000}
KmsVehiculoEscenario == {13500, 14000}
UmbralesKmEscenario == {5000, 10000}
UmbralesDiasEscenario == {90, 180}

\* 2024-10-01 at midnight and later in the day.
InstantesEscenario == {Tick(274), Tick(274) + 1}

RegistrosEscenario ==
  [patente : PatentesEscenario, fecha : FechasEscenario,
   km : KmsServiceEscenario]

InitEscenario ==
  /\ df_vehiculos \in [PatentesEscenario -> KmsVehiculoEscenario]
  /\ df_services \in TablasDe(RegistrosEscenario, MaxServices)
  /\ pc = "inicio"
  /\ llamada = SinLlamada
  /\ stats = << >>
  /\ predicciones = << >>
  /\ error = FALSE
  /\ propagada = SinExcepcion
  /\ BDEnReposo
  /\ RestoEnReposo
  /\ InitCostos

AnalizarEscenario == LlamarAnalizar(InstantesEscenario)
PredecirEscenario ==
  LlamarPredecir(InstantesEscenario, UmbralesKmEscenario,
                 UmbralesDiasEscenario)

NextEscenario == AnalizarEscenario \/ PredecirEscenario
SpecEscenario == InitEscenario /\ [][NextEscenario]_vars

----------------------------------------------------------------------------
(* State machine of the database: one operation at a time, of either        *)
(* module, on an initially empty database of either engine.                 *)

varsSinBD == <<varsAnalitica, varsCostos, propagada, varsResto>>

InitBD ==
  /\ AnaliticaEnReposo
  /\ InitCostos
  /\ propagada = SinExcepcion
  /\ bd \in {BDVacia(postgres) : postgres \in BOOLEAN}
  /\ RestoEnReposo

AddVehicle ==
  /\ \E patente \in PatentesBD, km \in KmsBD :
       bd' = add_vehicle(bd, patente, km)
  /\ UNCHANGED varsSinBD

DeleteVehicle ==
  /\ \E patente \in PatentesBD : bd' = delete_vehicle(bd, patente)
  /\ UNCHANGED varsSinBD

SecureDeleteVehicle ==
  /\ \E patente \in PatentesBD : bd' = secure_delete_vehicle(bd, patente)
  /\ UNCHANGED varsSinBD

AddServiceRecord ==
  /\ Len(bd.historial_service) < MaxHistorial
  /\ \E patente \in PatentesBD, fecha \in FechasBD, km \in KmsBD :
       bd' = add_service_record(bd, patente, fecha, km)
  /\ UNCHANGED varsSinBD

SecureAddServiceRecord ==
  /\ Len(bd.historial_service) < MaxHistorial
  /\ \E patente \in PatentesBD, fecha \in FechasBD, km \in KmsBD :
       bd' = secure_add_service_record(bd, patente, fecha, km)
  /\ UNCHANGED varsSinBD

AddIncident ==
  /\ Len(bd.incidentes) < MaxDependientes
  /\ \E patente \in PatentesBD, fecha \in FechasBD :
       bd' = add_incident(bd, patente, fecha)
  /\ UNCHANGED varsSinBD

AddMaintenanceSchedule ==
  /\ Len(bd.programacion_mantenimiento) < MaxDependientes
  /\ \E patente \in PatentesBD, fecha \in FechasProgramadas,
        km \in KmsProgramados :
       bd' = add_maintenance_schedule(bd, patente, fecha, km)
  /\ UNCHANGED varsSinBD

NextBD ==
  \/ AddVehicle
  \/ DeleteVehicle
  \/ SecureDeleteVehicle
  \/ AddServiceRecord
  \/ SecureAddServiceRecord
  \/ AddIncident
  \/ AddMaintenanceSchedule
SpecBD == InitBD /\ [][NextBD]_vars

----------------------------------------------------------------------------
(* Properties of the forecaster and the estimator                           *)

Filas == 1..Len(predicciones)
Predicho == pc = "predicho"

\* The urgency rank of the specification: most urgent first.
RangoUrgencia(e) ==
  CASE e = "ATRASADO" -> 0
    [] e = "URGENTE" -> 1
    [] e = "PROXIMO" -> 2
    [] e = "PLANIFICADO" -> 3
    [] OTHER -> 4

\* C1: when some vehicle's mean km-per-day rate is zero, the forecaster
\* still returns a row for every vehicle of the rate table, and the row of
\* the zero-rate vehicle predicts fecha_ultimo_service + umbral_dias.
C1_FallbackTasaCero ==
  (Predicho /\ \E p \in DOMAIN stats : stats[p].km_por_dia_mean.n = 0)
    => /\ \A p \in DOMAIN stats :
            \E i \in Filas : predicciones[i].patente = p
       /\ \A i \in Filas :
            predicciones[i].km_por_dia.n = 0
              => predicciones[i].fecha_proximo_service
                   = predicciones[i].fecha_ultimo_service
                       + Tick(llamada.umbral_dias)

\* C2: the rows are ordered by urgency rank (ATRASADO, URGENTE, PROXIMO,
\* PLANIFICADO), and rows of the same label by ascending
\* dias_hasta_service.
C2_OrdenPorUrgencia ==
  Predicho =>
    \A i, j \in Filas :
      i < j =>
        \/ RangoUrgencia(predicciones[i].estado)
             < RangoUrgencia(predicciones[j].estado)
        \/ /\ predicciones[i].estado = predicciones[j].estado
           /\ predicciones[i].dias_hasta_service
                <= predicciones[j].dias_hasta_service

\* C3: in every row, for every choice of the thresholds,
\* fecha_proximo_service is the earlier of fecha_estimada_km and
\* fecha_estimada_tiempo, so it is later than neither.
C3_FechaProximoEsMinimo ==
  \A i \in Filas :
    LET f == predicciones[i]
    IN  /\ f.fecha_proximo_service <= f.fecha_estimada_km
        /\ f.fecha_proximo_service <= f.fecha_estimada_tiempo
        /\ f.fecha_proximo_service
             \in {f.fecha_estimada_km, f.fecha_estimada_tiempo}

\* A call whose rows show both cases: the distance threshold binds in one
\* row and the time threshold in another.
C3_Witness ==
  /\ Predicho
  /\ \E i \in Filas :
       predicciones[i].fecha_estimada_km
         < predicciones[i].fecha_estimada_tiempo
  /\ \E i \in Filas :
       predicciones[i].fecha_estimada_tiempo
         < predicciones[i].fecha_estimada_km

\* The band of the specification for a number of days d.
EtiquetaEsperada(d, e) ==
  /\ (e = "ATRASADO") <=> (d < 0)
  /\ (e = "URGENTE") <=> (0 <= d /\ d <= 15)
  /\ (e = "PROXIMO") <=> (15 < d /\ d <= 30)
  /\ (e = "PLANIFICADO") <=> (d > 30)
  /\ e # "DESCONOCIDO"

\* C4: every row's label is the one of the band of its dias_hasta_service:
\* ATRASADO iff d < 0, URGENTE iff 0 <= d <= 15, PROXIMO iff 15 < d <= 30,
\* PLANIFICADO iff d > 30, never DESCONOCIDO.
C4_ParticionUrgencia ==
  \A i \in Filas :
    EtiquetaEsperada(predicciones[i].dias_hasta_service,
                     predicciones[i].estado)

\* A call that returns a row of exactly 15 days, labelled URGENTE, and a row
\* of exactly 30 days, labelled PROXIMO.
C4_Witness ==
  /\ Predicho
  /\ \E i \in Filas : /\ predicciones[i].dias_hasta_service = 15
                      /\ predicciones[i].estado = "URGENTE"
  /\ \E i \in Filas : /\ predicciones[i].dias_hasta_service = 30
                      /\ predicciones[i].estado = "PROXIMO"

\* C5: in every row dias_hasta_umbral_km >= 0; when the distance since the
\* last service exceeds umbral_km and the rate is positive it is 0 and
\* fecha_estimada_km is today.
C5_DiasUmbralKmNoNegativo ==
  \A i \in Filas :
    LET f == predicciones[i]
    IN  /\ f.dias_hasta_umbral_km >= 0
        /\ (f.km_desde_ultimo_service > llamada.umbral_km
            /\ f.km_por_dia.n > 0)
             => /\ f.dias_hasta_umbral_km = 0
                /\ f.fecha_estimada_km = llamada.hoy

\* A row whose distance since the last service exceeds umbral_km, with a
\* positive rate.
C5_Witness ==
  /\ Predicho
  /\ \E i \in Filas :
       /\ predicciones[i].km_desde_ultimo_service > llamada.umbral_km
       /\ predicciones[i].km_por_dia.n > 0
       /\ predicciones[i].dias_hasta_umbral_km = 0

\* The number of consecutive pairs of observations of patente p, in date
\* order, that are more than zero whole days apart.
ParesConDias(p) ==
  LET obs == Observaciones(p, df_vehiculos, df_services, llamada.hoy)
  IN  Cardinality({i \in 1..(Len(obs) - 1) :
                     obs[i + 1].fecha - obs[i].fecha >= TicksPerDay})

----------------------------------------------------------------------------
(* Properties of the cost model's artifact                                   *)

EntrenadorInactivo == entrenamiento.pc = "inactivo"

PasoEntrenador == entrenamiento' # entrenamiento
PasoLector == lector' # lector

\* C7: a call of crear_modelo_prediccion_costos with fewer than 10
\* qualifying records (costo > 0 and km not null) returns the failure result
\* with an 'insufficient data' message and leaves both artifact files as
\* they were.
C7_EntrenamientoInsuficiente ==
  [][(/\ entrenamiento.pc = "llamado"
      /\ PasoEntrenador
      /\ entrenamiento.tabla.validos < 10)
       => /\ archivos' = archivos
          /\ entrenamiento'.pc = "inactivo"
          /\ entrenamiento'.retorno.modelo = "None"
          /\ entrenamiento'.retorno.mensaje
               \in {"Datos insuficientes",
                    "Datos insuficientes (minimo 10 registros)"}]_vars

\* A call with exactly 9 qualifying records among more than 9 rows has
\* returned the failure while a model persisted earlier is still complete.
C7_Witness ==
  /\ EntrenadorInactivo
  /\ entrenamiento.tabla.validos = 9
  /\ NumFilas(entrenamiento.tabla) > 9
  /\ entrenamiento.retorno
       = RetornoFallo("Datos insuficientes (minimo 10 registros)")
  /\ archivos.modelo.estado = "completo"
  /\ archivos.columnas.estado = "completo"

\* C8: whatever a prediction reads of the artifact while a training runs is
\* complete, and the two files it reads were written by the same training
\* run.
C8_LecturaAtomica ==
  /\ lector.modelo_visto # Nada => lector.modelo_visto.estado = "completo"
  /\ lector.columnas_visto # Nada
       => /\ lector.columnas_visto.estado = "completo"
          /\ lector.columnas_visto.corrida = lector.modelo_visto.corrida

\* C9: a call of predecir_costo_service that finds the model file or the
\* feature-name file missing returns None; no step of the call changes an
\* artifact file; and once a training run has succeeded, a step of the call
\* taken while no training is in progress never returns None, so such a
\* call returns a number.
C9_SinModeloDevuelveNone ==
  [][PasoLector =>
       /\ archivos' = archivos
       /\ (lector.pc = "inactivo" /\ archivos.modelo = Ausente)
            => lector'.pc = "inactivo" /\ lector'.retorno = Ninguno
       /\ (lector.pc = "existe_columnas" /\ archivos.columnas = Ausente)
            => lector'.pc = "inactivo" /\ lector'.retorno = Ninguno
       /\ (EntrenadorInactivo /\ entrenamiento.corrida >= 1)
            => /\ lector'.retorno # Ninguno
               /\ lector'.pc = "inactivo" => lector'.retorno.tipo = "float"
    ]_vars

\* After a successful training run, with no training in progress, a call
\* has returned a number.
C9_Witness ==
  /\ EntrenadorInactivo
  /\ entrenamiento.retorno = RetornoExito(entrenamiento.corrida)
  /\ lector.pc = "inactivo"
  /\ lector.retorno.tipo = "float"
  /\ lector.columnas_visto.corrida = entrenamiento.corrida

\* C10: every number returned by predecir_costo_service is >= 0, and it is
\* 0 when the model's output is below zero, also for a make not seen in
\* training.
C10_CostoNoNegativo ==
  lector.retorno.tipo = "float"
    => /\ lector.retorno.valor >= 0
       /\ SalidaModelo(lector.modelo_visto.ajuste, lector.marca, lector.km) < 0
            => lector.retorno.valor = 0

\* A prediction for a make not seen in training whose model output is below
\* zero has returned 0.
C10_Witness ==
  /\ lector.retorno = Numero(0)
  /\ lector.marca \notin MarcasVistas
  /\ SalidaModelo(lector.modelo_visto.ajuste, lector.marca, lector.km) < 0

----------------------------------------------------------------------------
(* Properties of the forecaster's clock and of the estimator's filter       *)

\* The calendar day of a timestamp.
DiaCalendario(t) == t \div TicksPerDay

\* The rows returned by the same call made at instant hoy2, for some order
\* of the rate rows and some choice of the last services.
FilasEnInstante(hoy2) ==
  LET st == AnalizarKmPorTiempo(df_vehiculos, df_services, hoy2)
  IN  {PredecirProximosMantenimientos(
         st, orden, df_services, ultimo, llamada.umbral_km,
         llamada.umbral_dias, hoy2).filas :
         orden \in OrdenesStats(st),
         ultimo \in UltimosServicios(df_services)}

\* C13: dias_hasta_service of every row is the calendar-day difference
\* between fecha_proximo_service and today, and when the last service of
\* every vehicle is unambiguous the same call made at any other time of the
\* same day returns the same dias_hasta_service and the same label for
\* every vehicle.
C13_IndependienteDeLaHora ==
  Predicho =>
    /\ \A i \in Filas :
         predicciones[i].dias_hasta_service
           = DiaCalendario(predicciones[i].fecha_proximo_service)
               - DiaCalendario(llamada.hoy)
    /\ Cardinality(UltimosServicios(df_services)) = 1
         => \A hoy2 \in Instantes : \A otras \in FilasEnInstante(hoy2) :
              \A i \in Filas : \A j \in 1..Len(otras) :
                otras[j].patente = predicciones[i].patente
                  => /\ otras[j].dias_hasta_service
                          = predicciones[i].dias_hasta_service
                     /\ otras[j].estado = predicciones[i].estado

\* C20: a consecutive pair whose later reading is lower than the earlier
\* one contributes no rate sample: every reported km_por_dia_min and every
\* mean rate is >= 0.
C20_RegresionFiltrada ==
  \A p \in DOMAIN stats :
    /\ stats[p].km_por_dia_min.n >= 0
    /\ stats[p].km_por_dia_mean.n >= 0

----------------------------------------------------------------------------
(* Properties of the worked scenario                                        *)

\* Scenario A: service records (2024-01-01, 10000 km) and (2024-07-01,
\* 13000 km), current odometer 14000.
EscenarioA ==
  /\ df_vehiculos = [p \in PatentesEscenario |-> 14000]
  /\ Len(df_services) = 2
  /\ {df_services[1], df_services[2]}
       = {[patente |-> "A", fecha |-> 0, km |-> 10000],
          [patente |-> "A", fecha |-> 182, km |-> 13000]}

\* The rate samples of the scenario's vehicle in the call made.
ParesEscenario ==
  Pares(Observaciones("A", df_vehiculos, df_services, llamada.hoy))

\* C15: in Scenario A run on 2024-10-01, analizar_km_por_tiempo produces
\* exactly two rate samples, of 182 days and 3000 km and of 92 days and
\* 1000 km; the mean rate is (3000/182 + 1000/92)/2 = 28625/2093 km/day,
\* within 0.01 of 13.67, and the annual estimate is within 5 km of 4990.
C15_EscenarioA ==
  (pc \in {"analizado", "predicho"} /\ EscenarioA) =>
    /\ Len(ParesEscenario) = 2
    /\ ParesEscenario[1].dias = 182
    /\ ParesEscenario[1].km_recorridos = 3000
    /\ ParesEscenario[2].dias = 92
    /\ ParesEscenario[2].km_recorridos = 1000
    /\ DOMAIN stats = {"A"}
    /\ stats["A"].km_por_dia_count = 2
    /\ stats["A"].km_por_dia_mean.n * 2093
         = 28625 * stats["A"].km_por_dia_mean.d
    /\ FracMenor(Frac(1366, 100), stats["A"].km_por_dia_mean)
    /\ FracMenor(stats["A"].km_por_dia_mean, Frac(1368, 100))
    /\ FracMenor(Frac(4985, 1), stats["A"].km_anual_estimado)
    /\ FracMenor(stats["A"].km_anual_estimado, Frac(4995, 1))

\* Scenario A analysed later in the day of 2024-10-01.
C15_Witness ==
  /\ pc = "analizado"
  /\ EscenarioA
  /\ llamada.hoy = Tick(274) + 1
  /\ stats["A"].km_por_dia_count = 2

\* The row of the scenario's vehicle in the forecaster's result.
FilasEscenario == {i \in Filas : predicciones[i].patente = "A"}

\* C16, as claimed: in Scenario A with umbral_km = 5000 on 2024-10-01 the
\* forecaster's days until the distance threshold is 368 and
\* fecha_estimada_km is 2025-10-04.
C16_EscenarioB_368 ==
  (Predicho /\ EscenarioA /\ llamada.umbral_km = 5000) =>
    /\ FilasEscenario # {}
    /\ \A i \in FilasEscenario :
         /\ predicciones[i].dias_hasta_umbral_km = 368
         /\ DiaCalendario(predicciones[i].fecha_estimada_km) = 642

\* C16, amended: in Scenario A with umbral_km = 5000 on 2024-10-01 the
\* forecaster divides by the mean rate of 28625/2093 km/day: the days until
\* the distance threshold is 293 and fecha_estimada_km is 2025-07-21.
C16_EscenarioB_293 ==
  (Predicho /\ EscenarioA /\ llamada.umbral_km = 5000) =>
    /\ FilasEscenario # {}
    /\ \A i \in FilasEscenario :
         /\ predicciones[i].km_desde_ultimo_service = 1000
         /\ predicciones[i].dias_hasta_umbral_km = 293
         /\ DiaCalendario(predicciones[i].fecha_estimada_km) = 567

\* The forecast of Scenario A with umbral_km = 5000 has been made.
C16_Witness ==
  /\ Predicho
  /\ EscenarioA
  /\ llamada.umbral_km = 5000
  /\ \E i \in FilasEscenario : predicciones[i].dias_hasta_umbral_km = 293

\* C17: in Scenario A with umbral_km = 5000 and umbral_dias = 180 on
\* 2024-10-01, fecha_estimada_tiempo and fecha_proximo_service are
\* 2024-12-28, dias_hasta_service is 88 and the label is PLANIFICADO.
C17_EscenarioB_Combinada ==
  (Predicho /\ EscenarioA /\ llamada.umbral_km = 5000
   /\ llamada.umbral_dias = 180) =>
    /\ FilasEscenario # {}
    /\ \A i \in FilasEscenario :
         /\ DiaCalendario(predicciones[i].fecha_estimada_tiempo) = 362
         /\ predicciones[i].fecha_proximo_service
              = predicciones[i].fecha_estimada_tiempo
         /\ predicciones[i].dias_hasta_service = 88
         /\ predicciones[i].estado = "PLANIFICADO"

----------------------------------------------------------------------------
(* Properties of the estimator on incomplete or malformed tables            *)

\* The rows of df_services whose 'fecha' cannot be parsed.
FilasInvalidas ==
  {i \in 1..Len(df_services) : df_services[i].fecha \in FechasInvalidas}

\* df_services without its rows of unparseable 'fecha'.
ServiciosValidos ==
  SelectSeq(df_services, LAMBDA r : r.fecha \notin FechasInvalidas)

\* C12: when one service record has an unparseable date, the rows of
\* analizar_km_por_tiempo are the rows computed without that record.
C12_FechaInvalidaDescartada ==
  (pc = "analizado" /\ Cardinality(FilasInvalidas) = 1)
    => stats = AnalizarKmPorTiempo(df_vehiculos, ServiciosValidos,
                                   llamada.hoy)

\* The patentes of the vehicle table and of the service table.
PatentesEntrada == PatentesDe(df_vehiculos, df_services)

\* C14: analizar_km_por_tiempo returns the empty result, raising nothing,
\* when the vehicle table or the service table is empty, and otherwise
\* returns no row for a vehicle whose observations (its service records and
\* today's reading) hold no consecutive pair of more than zero days, such
\* as a vehicle with no service record.
C14_SinObservaciones ==
  pc = "analizado" =>
    /\ (DOMAIN df_vehiculos = {} \/ Len(df_services) = 0)
         => stats = << >> /\ propagada = SinExcepcion
    /\ \A p \in PatentesEntrada : ParesConDias(p) = 0 => p \notin DOMAIN stats
    /\ \A p \in DOMAIN df_vehiculos :
         (\A i \in 1..Len(df_services) : df_services[i].patente # p)
           => p \notin DOMAIN stats

\* A call on non-empty tables that returned rows, none of them for a
\* vehicle of the table that has no service record.
C14_Witness ==
  /\ pc = "analizado"
  /\ stats # << >>
  /\ \E p \in DOMAIN df_vehiculos :
       /\ \A i \in 1..Len(df_services) : df_services[i].patente # p
       /\ p \notin DOMAIN stats

----------------------------------------------------------------------------
(* Properties of the exception handling                                     *)

\* C11: none of analizar_km_por_tiempo, predecir_proximos_mantenimientos,
\* crear_modelo_prediccion_costos and predecir_costo_service lets an
\* exception through to its caller; a call whose body raised returned the
\* function's failure value: the empty table, the tuple with model None, or
\* None.
C11_SinExcepcionPropagada ==
  /\ propagada = SinExcepcion
  /\ (pc = "analizado"
      /\ ExcepcionAnalizar(df_vehiculos, df_services) # SinExcepcion)
       => stats = << >>
  /\ (Predicho
      /\ (error \/ ExcepcionAnalizar(df_vehiculos, df_services) # SinExcepcion))
       => predicciones = << >>
  /\ (entrenamiento.pc = "inactivo"
      /\ entrenamiento.retorno # SinRetorno
      /\ ~SinDatos(entrenamiento.tabla)
      /\ ~DatosInsuficientes(entrenamiento.tabla)
      /\ ~entrenamiento.tabla.fechas_validas)
       => entrenamiento.retorno.modelo = "None"
  /\ (lector.pc = "inactivo"
      /\ "parcial" \in {lector.modelo_visto.estado,
                        lector.columnas_visto.estado})
       => lector.retorno = Ninguno

\* predecir_costo_service has loaded a model file that a training run had
\* truncated and not yet written, and has returned None.
C11_Witness ==
  /\ lector.pc = "inactivo"
  /\ lector.modelo_visto.estado = "parcial"
  /\ lector.retorno = Ninguno
  /\ propagada = SinExcepcion

----------------------------------------------------------------------------
(* Properties of the database                                               *)

\* The greatest 'fecha' among the service records of patente in database b;
\* SinFecha when it has none.
UltimaFechaDeService(b, patente) ==
  LET filas == Referencias(b.historial_service, patente)
  IN  IF filas = {} THEN SinFecha
      ELSE CHOOSE f \in {b.historial_service[i].fecha : i \in filas} :
             \A i \in filas : b.historial_service[i].fecha <= f

\* C18: no step removes a vehicle while a service record, an incident or a
\* scheduled maintenance references its patente, whichever module's
\* delete_vehicle takes it, so that no dependent row is left without its
\* vehicle.
C18_SinBorradoConDependientes ==
  [][\A p \in DOMAIN bd.vehiculos :
       p \notin DOMAIN bd'.vehiculos => ~TieneDependientes(bd, p)]_vars

\* C19: a successful add_service_record for a vehicle never lowers its km,
\* and fecha_service stays the date of its most recent service record by
\* date, also when the record added is dated before an existing one.
C19_OdometroMonotono ==
  [][\A p \in DOMAIN bd.vehiculos :
       (/\ p \in DOMAIN bd'.vehiculos
        /\ Len(bd'.historial_service) = Len(bd.historial_service) + 1
        /\ bd'.historial_service[Len(bd'.historial_service)].patente = p)
         => /\ bd'.vehiculos[p].km >= bd.vehiculos[p].km
            /\ bd.vehiculos[p].fecha_service
                 = UltimaFechaDeService(bd, p)
                 => bd'.vehiculos[p].fecha_service
                      = UltimaFechaDeService(bd', p)]_vars

----------------------------------------------------------------------------
(* Properties of the forecaster's baseline and of the estimator's samples   *)

\* The vehicles of the table that have no service record.
SinServicios ==
  {p \in DOMAIN df_vehiculos :
     \A i \in 1..Len(df_services) : df_services[i].patente # p}

\* C21: when the forecaster ran without error on a non-empty service table,
\* every vehicle with no service record has a row whose last-service date
\* is today and whose last-service odometer is its current odometer, so
\* that km_desde_ultimo_service is 0 and fecha_estimada_tiempo is today +
\* umbral_dias.
C21_SinServicioUsaHoy ==
  (Predicho /\ ~error /\ Len(df_services) > 0) =>
    \A p \in SinServicios :
      \E i \in Filas :
        /\ predicciones[i].patente = p
        /\ predicciones[i].fecha_ultimo_service = llamada.hoy
        /\ predicciones[i].km_ultimo_service = df_vehiculos[p]
        /\ predicciones[i].km_desde_ultimo_service = 0
        /\ predicciones[i].fecha_estimada_tiempo
             = llamada.hoy + Tick(llamada.umbral_dias)

\* The observations of patente p in the call made, in date order.
ObservacionesDe(p) ==
  Observaciones(p, df_vehiculos, df_services, llamada.hoy)

\* The consecutive pairs of observations of p (by the index of the earlier
\* one) that are at least one whole day apart, and the others.
ParesPositivos(p) ==
  {i \in 1..(Len(ObservacionesDe(p)) - 1) :
     ObservacionesDe(p)[i + 1].fecha - ObservacionesDe(p)[i].fecha
       >= TicksPerDay}
ParesNoPositivos(p) ==
  (1..(Len(ObservacionesDe(p)) - 1)) \ ParesPositivos(p)

\* The rate of pair i of p: odometer delta over whole days.
TasaDelPar(p, i) ==
  LET obs == ObservacionesDe(p)
  IN  Frac(obs[i + 1].km - obs[i].km,
           (obs[i + 1].fecha - obs[i].fecha) \div TicksPerDay)

RECURSIVE SumaDeTasas(_, _)
SumaDeTasas(p, S) ==
  IF S = {} THEN Frac(0, 1)
  ELSE LET i == CHOOSE x \in S : TRUE
       IN  FracSuma(TasaDelPar(p, i), SumaDeTasas(p, S \ {i}))

FracIgual(a, b) == a.n * b.d = b.n * a.d

\* C22: a vehicle has a row exactly when some consecutive pair of its
\* observations is more than zero whole days apart; the row's samples are
\* those pairs, one each: their number is the count, their sum is
\* count * mean, and the minimum and the maximum are the least and the
\* greatest delta/days among them.  Pairs of zero or fewer days contribute
\* nothing.
C22_SinDivisionPorCero ==
  (pc \in {"analizado", "predicho"}
   /\ ExcepcionAnalizar(df_vehiculos, df_services) = SinExcepcion
   /\ Len(df_services) > 0) =>
    \A p \in PatentesDe(df_vehiculos, df_services) :
      /\ p \in DOMAIN stats <=> ParesPositivos(p) # {}
      /\ p \in DOMAIN stats =>
           LET f == stats[p]
               S == ParesPositivos(p)
           IN  /\ f.km_por_dia_count = Cardinality(S)
               /\ f.km_por_dia_mean.d > 0
               /\ f.km_por_dia_min.d > 0
               /\ f.km_por_dia_max.d > 0
               /\ FracIgual(Frac(f.km_por_dia_mean.n * Cardinality(S),
                                 f.km_por_dia_mean.d),
                            SumaDeTasas(p, S))
               /\ \E i \in S : FracIgual(f.km_por_dia_min, TasaDelPar(p, i))
               /\ \E i \in S : FracIgual(f.km_por_dia_max, TasaDelPar(p, i))
               /\ \A i \in S :
                    /\ FracMenorIgual(f.km_por_dia_min, TasaDelPar(p, i))
                    /\ FracMenorIgual(TasaDelPar(p, i), f.km_por_dia_max)

\* A vehicle with a service dated today, whose pair with today's reading
\* is zero days long, and an earlier service: its row has one sample.
C22_Witness ==
  /\ pc = "analizado"
  /\ \E p \in DOMAIN stats :
       /\ ParesNoPositivos(p) # {}
       /\ stats[p].km_por_dia_count = 1
       /\ \E i \in 1..Len(df_services) :
            /\ df_services[i].patente = p
            /\ df_services[i].fecha = HoyDia

\* C23: in every row of analizar_km_por_tiempo for a vehicle of the vehicle
\* table, km_last is the vehicle's current odometer and fecha_last is
\* today's observation date, also when the pair ending at today's reading
\* is discarded; so the forecaster's km_desde_ultimo_service is the current
\* odometer minus km_ultimo_service.
C23_KmLastEsOdometroActual ==
  /\ pc \in {"analizado", "predicho"} =>
       \A p \in DOMAIN stats \cap DOMAIN df_vehiculos :
         /\ stats[p].km_last = df_vehiculos[p]
         /\ stats[p].fecha_last = llamada.hoy
  /\ Predicho =>
       \A i \in Filas :
         predicciones[i].patente \in DOMAIN df_vehiculos
           => predicciones[i].km_desde_ultimo_service
                = df_vehiculos[predicciones[i].patente]
                    - predicciones[i].km_ultimo_service

----------------------------------------------------------------------------
(* State machine of the cache: the methods of the singleton, one call at a  *)
(* time, the clock, and the restart of the process over the files of        *)
(* CACHE_DIR.  retorno keeps the call made, the value it returned and      *)
(* whether it met an expired entry or a full dict.                          *)

varsSinCache == <<varsAnalitica, varsCostos, propagada, bd, avisos, hilos>>

InitCache ==
  /\ AnaliticaEnReposo
  /\ InitCostos
  /\ propagada = SinExcepcion
  /\ BDEnReposo
  /\ RestoEnReposo

\* The dict holds key with an entry past its expires_at.
Expirada(cache, key, now) ==
  \E i \in 1..Len(cache) : cache[i].key = key /\ now > cache[i].expires_at

LlamarGet(claves) ==
  /\ \E key \in claves :
       /\ cache_manager' = get(cache_manager, key, ahora).m
       /\ retorno' = [op |-> "get", key |-> key,
                      data |-> get(cache_manager, key, ahora).data,
                      caso |-> IF Expirada(cache_manager.cache, key, ahora)
                               THEN "expirada" ELSE "otro"]
  /\ UNCHANGED <<ahora, varsSinCache>>

CacheGet == LlamarGet(Claves)

LlamarSet(claves, datos) ==
  /\ \E key \in claves, data \in datos, ttl \in Ttls :
       /\ cache_manager' = set(cache_manager, key, data, ttl, ahora)
       /\ retorno' = [op |-> "set", key |-> key, data |-> data,
                      caso |-> IF /\ ~Contiene(cache_manager.cache, key)
                                  /\ Len(cache_manager.cache)
                                       >= cache_manager.max_size
                               THEN "llena" ELSE "otro"]
  /\ UNCHANGED <<ahora, varsSinCache>>

CacheSet == LlamarSet(Claves, Datos)

LlamarDelete(claves) ==
  /\ \E key \in claves :
       /\ cache_manager' = delete(cache_manager, key)
       /\ retorno' = [op |-> "delete"]
  /\ UNCHANGED <<ahora, varsSinCache>>

CacheDelete == LlamarDelete(Claves)

CleanupExpired ==
  /\ cache_manager' = cleanup_expired(cache_manager, ahora)
  /\ retorno' = [op |-> "cleanup_expired"]
  /\ UNCHANGED <<ahora, varsSinCache>>

\* The process ends and a new one imports cache_manager.
Reiniciar ==
  /\ cache_manager' = NuevoCacheManager(cache_manager, ahora)
  /\ retorno' = [op |-> "CacheManager"]
  /\ UNCHANGED <<ahora, varsSinCache>>

Tic ==
  /\ ahora < MaxReloj
  /\ ahora' = ahora + 1
  /\ UNCHANGED <<cache_manager, retorno, varsSinCache>>

NextCache ==
  \/ CacheGet
  \/ CacheSet
  \/ CacheDelete
  \/ CleanupExpired
  \/ Reiniciar
  \/ Tic
SpecCache == InitCache /\ [][NextCache]_vars

\* The same over two keys, with two values to tell apart.
DiscoGet == LlamarGet(ClavesDisco)
DiscoSet == LlamarSet(ClavesDisco, DatosDisco)
DiscoDelete == LlamarDelete(ClavesDisco)

NextDisco ==
  \/ DiscoGet
  \/ DiscoSet
  \/ DiscoDelete
  \/ CleanupExpired
  \/ Reiniciar
  \/ Tic
SpecDisco == InitCache /\ [][NextDisco]_vars

----------------------------------------------------------------------------
(* Properties of the cache                                                  *)

ClavesDe(cache) == {cache[i].key : i \in 1..Len(cache)}

\* C24: a call of get returns a value other than None only when the cache
\* is enabled and the key is present with now <= expires_at, and then the
\* data stored under the key; for a present key with now > expires_at it
\* returns None and the entry and its data file are gone afterwards.
C24_GetSoloVigentes ==
  [][CacheGet =>
       LET key == retorno'.key
           antes == cache_manager.cache
       IN  /\ retorno'.data # None =>
                /\ cache_manager.enabled
                /\ \E i \in 1..Len(antes) :
                     /\ antes[i].key = key
                     /\ ahora <= antes[i].expires_at
                     /\ retorno'.data = antes[i].data
           /\ \A i \in 1..Len(antes) :
                (antes[i].key = key /\ ahora > antes[i].expires_at) =>
                  /\ retorno'.data = None
                  /\ key \notin ClavesDe(cache_manager'.cache)
                  /\ key \notin DOMAIN cache_manager'.pkl]_vars

\* A get of a key whose entry had expired: it returned None.
C24_Witness ==
  /\ retorno.op = "get"
  /\ retorno.caso = "expirada"
  /\ retorno.data = None
  /\ ~Contiene(cache_manager.cache, retorno.key)

\* C25: the dict never holds more than max_size entries; a set of a key
\* that is not in a full dict removes exactly one entry, one of the least
\* last_accessed, and a set of a key that is in the dict removes none.
C25_NuncaExcedeMaxSize ==
  [][/\ Len(cache_manager'.cache) <= cache_manager'.max_size
     /\ CacheSet =>
          LET key == retorno'.key
              antes == cache_manager.cache
              despues == ClavesDe(cache_manager'.cache)
          IN  IF key \notin ClavesDe(antes)
                 /\ Len(antes) >= cache_manager.max_size
              THEN \E i \in 1..Len(antes) :
                     /\ \A j \in 1..Len(antes) :
                          antes[i].last_accessed <= antes[j].last_accessed
                     /\ despues
                          = (ClavesDe(antes) \ {antes[i].key}) \cup {key}
              ELSE despues = ClavesDe(antes) \cup {key}]_vars

\* A set of a new key into a full dict: the dict is full afterwards.
C25_Witness ==
  /\ retorno.op = "set"
  /\ retorno.caso = "llena"
  /\ Contiene(cache_manager.cache, retorno.key)
  /\ Len(cache_manager.cache) = cache_manager.max_size

\* C27: a manager rebuilt from the files returns, for every key whose entry
\* had not expired, the value most recently set under that key.
C27_DiscoGuardaUltimoValor ==
  [][Reiniciar =>
       \A i \in 1..Len(cache_manager.cache) :
         ~is_expired(cache_manager.cache[i], ahora) =>
           get(cache_manager', cache_manager.cache[i].key, ahora').data
             = cache_manager.cache[i].data]_vars

----------------------------------------------------------------------------
(* The cached reads of src/secure_database.py: get_service_history behind   *)
(* @cached(ttl=300), with the writes of the same module.                    *)

\* The ttl of the decorators of secure_database.py (300 s), in ticks.
TtlLecturas == 2

\* cache_manager.py:88-117: one key per function and arguments (the md5 of
\* the arguments is taken as free of collisions).
generate_key(base_key, params) == <<base_key, params>>

\* The rows of t whose patente is in patentes, in the order of t.
RECURSIVE FilasDe(_, _)
FilasDe(t, patentes) ==
  IF t = << >> THEN << >>
  ELSE (IF t[1].patente \in patentes THEN <<t[1]>> ELSE << >>)
         \o FilasDe(Tail(t), patentes)

\* secure_database.py:800-845: historial_service JOIN vehiculos for one
\* patente, most recent fecha first.
get_service_history(b, patente) ==
  LET history ==
        FilasDe(b.historial_service, {patente} \cap DOMAIN b.vehiculos)
  IN  [tipo |-> "DataFrame",
       filas |-> OrdenEstable(
                   history,
                   [j \in 1..Len(history), i \in 1..Len(history) |->
                      history[j].fecha > history[i].fecha])]

\* cache_manager.py:327-347: the wrapper of @cached around a call whose
\* uncached result is result; m is the manager afterwards and data the
\* value returned.
cached(m, cache_key, result, ttl, now) ==
  LET cached_result == get(m, cache_key, now)
  IN  IF cached_result.data # None THEN cached_result
      ELSE [m |-> set(cached_result.m, cache_key, result, ttl, now),
            data |-> result]

varsLecturas == <<varsAnalitica, varsCostos, propagada, avisos, hilos>>

GetServiceHistory ==
  /\ \E patente \in PatentesBD :
       LET r == cached(cache_manager,
                       generate_key("secure_database.get_service_history",
                                    patente),
                       get_service_history(bd, patente), TtlLecturas, ahora)
       IN  /\ cache_manager' = r.m
           /\ retorno' = [op |-> "get_service_history",
                          patente |-> patente, data |-> r.data]
  /\ UNCHANGED <<bd, ahora, varsLecturas>>

NextLecturas ==
  \/ AddVehicle
  \/ SecureAddServiceRecord
  \/ GetServiceHistory
  \/ Tic
SpecLecturas == InitBD /\ [][NextLecturas]_vars

\* C28: a call of get_service_history returns the rows the database holds
\* for the patente at the time of the call, whatever was read before.
C28_LecturaRefleja ==
  [][GetServiceHistory =>
       retorno'.data = get_service_history(bd', retorno'.patente)]_vars

----------------------------------------------------------------------------
(* Two threads in src/secure_database.py on one vehicle: delete_vehicle in  *)
(* one, add_service_record or add_incident in the other, each on its own    *)
(* connection.  A SELECT sees what is committed when it runs; the write of  *)
(* a call and its commit are one step (the engine serialises writers).      *)

Operaciones == {"add_service_record", "add_incident"}

varsSinHilos == <<varsAnalitica, varsCostos, propagada, varsCache, avisos>>

\* A database with the vehicle registered, no call in progress.
InitConcurrente ==
  /\ AnaliticaEnReposo
  /\ InitCostos
  /\ propagada = SinExcepcion
  /\ \E postgres \in BOOLEAN, patente \in PatentesBD, km \in KmsBD :
       bd = add_vehicle(BDVacia(postgres), patente, km)
  /\ RestoEnReposo

\* secure_database.py:508-556: the three SELECT COUNT(*) and the refusal
\* when related_records is not empty.
BorrarContar ==
  /\ hilos.borrar.pc = "inicio"
  /\ \E patente \in PatentesBD :
       hilos' = [hilos EXCEPT !.borrar =
                   [pc |-> IF TieneDependientes(bd, patente)
                           THEN "rechazado" ELSE "contado",
                    patente |-> patente]]
  /\ UNCHANGED <<bd, varsSinHilos>>

\* secure_database.py:558-575: the DELETE and the commit; where foreign
\* keys are enforced the DELETE raises when a dependent row was committed
\* meanwhile.
BorrarEjecutar ==
  /\ hilos.borrar.pc = "contado"
  /\ IF ClaveForaneaVigente(bd) /\ TieneDependientes(bd, hilos.borrar.patente)
     THEN /\ hilos' = [hilos EXCEPT !.borrar.pc = "error"]
          /\ UNCHANGED bd
     ELSE /\ hilos' = [hilos EXCEPT !.borrar.pc = "eliminado"]
          /\ bd' = [bd EXCEPT !.vehiculos =
                      SinVehiculo(bd.vehiculos, hilos.borrar.patente)]
  /\ UNCHANGED varsSinHilos

\* secure_database.py:680-690, 762-772: SELECT patente FROM vehiculos and
\* the refusal when there is no such vehicle.
AgregarVerificar ==
  /\ hilos.agregar.pc = "inicio"
  /\ \E op \in Operaciones, patente \in PatentesBD,
        fecha \in FechasBD, km \in KmsBD :
       hilos' = [hilos EXCEPT !.agregar =
                   [pc |-> IF patente \in DOMAIN bd.vehiculos
                           THEN "verificado" ELSE "rechazado",
                    op |-> op, patente |-> patente,
                    fecha |-> fecha, km |-> km]]
  /\ UNCHANGED <<bd, varsSinHilos>>

\* secure_database.py:692-720, 774-793: the INSERT (and the UPDATE of the
\* vehicle, for a service record) and the commit; where foreign keys are
\* enforced the INSERT raises when the vehicle was deleted meanwhile.
AgregarInsertar ==
  /\ hilos.agregar.pc = "verificado"
  /\ LET a == hilos.agregar
     IN  IF ClaveForaneaVigente(bd) /\ a.patente \notin DOMAIN bd.vehiculos
         THEN /\ hilos' = [hilos EXCEPT !.agregar.pc = "error"]
              /\ UNCHANGED bd
         ELSE /\ hilos' = [hilos EXCEPT !.agregar.pc = "agregado"]
              /\ bd' = IF a.op = "add_service_record"
                       THEN [bd EXCEPT
                               !.historial_service =
                                  Append(@, [patente |-> a.patente,
                                             fecha |-> a.fecha,
                                             km |-> a.km]),
                               !.vehiculos =
                                  ActualizarVehiculo(@, a.patente,
                                                     a.fecha, a.km)]
                       ELSE [bd EXCEPT
                               !.incidentes =
                                  Append(@, [patente |-> a.patente,
                                             fecha |-> a.fecha])]
  /\ UNCHANGED varsSinHilos

NextConcurrente ==
  \/ BorrarContar
  \/ BorrarEjecutar
  \/ AgregarVerificar
  \/ AgregarInsertar
SpecConcurrente == InitConcurrente /\ [][NextConcurrente]_vars

\* C29: when delete_vehicle has deleted the vehicle, no service record and
\* no incident of that patente is committed, whatever a concurrent
\* add_service_record or add_incident did.
C29_BorradoAtomico ==
  hilos.borrar.pc = "eliminado" =>
    /\ hilos.borrar.patente \notin DOMAIN bd.vehiculos
    /\ ~TieneDependientes(bd, hilos.borrar.patente)

----------------------------------------------------------------------------
(* Scheduled maintenance (src/database.py): its reminders and its           *)
(* completion, one call at a time.  avisos keeps what the last two calls    *)
(* of process_maintenance_reminders fetched; retorno keeps the last call    *)
(* of mark_maintenance_completed.                                           *)

\* database.py:1098-1164: nothing when the schedule (joined with its
\* vehicle) is not found; otherwise estado = 'COMPLETADO' and, when
\* service_realizado, a service record at the vehicle's current odometer,
\* dated today when the programmed date is in the future.
mark_maintenance_completed(b, id_programacion, service_realizado, hoy) ==
  IF Programaciones(b, id_programacion) = {} THEN b
  ELSE LET programacion ==
             b.programacion_mantenimiento[
               CHOOSE i \in Programaciones(b, id_programacion) : TRUE]
           fecha_service ==
             IF programacion.fecha_programada > hoy THEN hoy
             ELSE programacion.fecha_programada
           completada ==
             update_maintenance_schedule(b, id_programacion,
                                         [estado |-> "COMPLETADO"])
       IN  IF service_realizado
           THEN add_service_record(completada, programacion.patente,
                                   fecha_service,
                                   b.vehiculos[programacion.patente].km)
           ELSE completada

varsMantenimiento == <<varsAnalitica, varsCostos, propagada, hilos>>

ProcessMaintenanceReminders ==
  /\ \E emails \in BOOLEAN :
       /\ bd' = process_maintenance_reminders(bd, emails, FechaActual(ahora))
       /\ avisos' = [ids |-> get_maintenance_reminders(bd, FechaActual(ahora)),
                     emails |-> emails,
                     previos |-> avisos.ids,
                     emails_previos |-> avisos.emails]
  /\ UNCHANGED <<varsCache, varsMantenimiento>>

MarkMaintenanceCompleted ==
  /\ Len(bd.historial_service) < MaxHistorial
  /\ \E id_programacion \in 1..Len(bd.programacion_mantenimiento),
        service_realizado \in BOOLEAN :
       /\ bd' = mark_maintenance_completed(bd, id_programacion,
                                           service_realizado,
                                           FechaActual(ahora))
       /\ retorno' = [op |-> "mark_maintenance_completed",
                      id_programacion |-> id_programacion,
                      service_realizado |-> service_realizado]
  /\ UNCHANGED <<cache_manager, ahora, avisos, varsMantenimiento>>

NextMantenimiento ==
  \/ AddVehicle
  \/ AddMaintenanceSchedule
  \/ ProcessMaintenanceReminders
  \/ MarkMaintenanceCompleted
  \/ Tic
SpecMantenimiento == InitBD /\ [][NextMantenimiento]_vars

\* The schedules and their reminders alone.
NextRecordatorios ==
  \/ AddVehicle
  \/ AddMaintenanceSchedule
  \/ ProcessMaintenanceReminders
  \/ Tic
SpecRecordatorios == InitBD /\ [][NextRecordatorios]_vars

\* The schedules whose reminder is marked as sent.
Enviados(b) ==
  {b.programacion_mantenimiento[i].id :
     i \in {j \in 1..Len(b.programacion_mantenimiento) :
              b.programacion_mantenimiento[j].recordatorio_enviado}}

\* C26: a run of process_maintenance_reminders leaves every reminder it
\* fetched marked as sent, with or without addresses, and fetches none that
\* was marked before; so the run after it reports none of the reminders it
\* reported.
C26_RecordatoriosMarcados ==
  [][ProcessMaintenanceReminders =>
       /\ avisos'.ids \subseteq Enviados(bd')
       /\ avisos'.ids \cap Enviados(bd) = {}
       /\ avisos'.ids \cap avisos.ids = {}]_vars

\* A run without addresses reported a reminder and the run after it
\* reported none.
C26_Witness ==
  /\ avisos.ids = {}
  /\ avisos.previos # {}
  /\ ~avisos.emails_previos
  /\ avisos.previos \subseteq Enviados(bd)

\* C30: a call of mark_maintenance_completed(id, service_realizado=True)
\* that follows one for the same schedule, already 'COMPLETADO', adds no
\* service record and leaves the vehicles as they were.
C30_CompletarUnaVez ==
  [][(/\ MarkMaintenanceCompleted
      /\ retorno.op = "mark_maintenance_completed"
      /\ retorno.service_realizado
      /\ retorno'.service_realizado
      /\ retorno'.id_programacion = retorno.id_programacion
      /\ \E i \in Programaciones(bd, retorno.id_programacion) :
           bd.programacion_mantenimiento[i].estado = "COMPLETADO")
     => /\ bd'.historial_service = bd.historial_service
        /\ bd'.vehiculos = bd.vehiculos]_vars
=============================================================================
